---- MODULE Spec2Model ----
(***************************************************************************)
(* A model of the strategy execution engine of finviz_long_trader:         *)
(* Strategy (src/src/brain/strategy.py), JsonStateStore                    *)
(* (src/src/brain/state_store.py), the domain model                        *)
(* (src/src/brain/models.py), PaperBroker                                  *)
(* (src/src/execution/paper_broker.py) and AlpacaBroker                    *)
(* (src/src/execution/alpaca_broker.py) in front of a backend that accepts *)
(* every order and fills BUY orders in parts.                              *)
(*                                                                         *)
(* Conventions.  Prices are integer cents.  Averages and P&L are exact     *)
(* rationals <<n, d>> in lowest terms (d > 0).  A uuid4() identifier is    *)
(* the next number of its symbol's counter next_id[symbol], offset by the  *)
(* symbol's index times IdStride: identifiers are unique, and the orders   *)
(* of one symbol are kept in a dict in ascending order of their keys.  The *)
(* relative order of different symbols' entries is not kept; the handlers  *)
(* treat the orders and fills of different symbols independently.          *)
(* Calendar dates are                                                      *)
(* day numbers 1..MaxDay, 0 standing for None.  Position.last_entry_date,  *)
(* Fill.side and Quote.high are the attributes strategy.py and             *)
(* paper_broker.py read and write on those objects; they are record        *)
(* fields here.                                                            *)
(***************************************************************************)
EXTENDS Integers, Sequences, FiniteSets, TLC

\* ------------------------------------------------------------------ bounds
MaxDay == 2
MaxId == 14
MaxList == 2
MaxLadderQty == 60
IdStride == 100
MaxOpen == 2
MaxRedeliver == 1
MaxMinute == 8
MaxFills == 4
MaxEodWait == 2
MaxRestart == 1
MaxCancel == 1

\* ------------------------------------------------------- program constants
BASE_POSITION_DOLLARS == 1000
FINVIZ_MIN_SYMBOLS == 5
PREMARKET_BUY_SLIPPAGE_BPS == 30
REFRESH_INTERVAL_SECONDS == 60
cooldown_seconds == 300
\* Times of the day, in minutes after midnight.
PREMARKET_START == 240
REGULAR_OPEN == 570
REGULAR_CLOSE == 960

\* The symbols the screener may list.  A is the symbol the quote provider
\* quotes; B is listed with a price in the screener's price column and has no
\* quote; C, D and E have neither and are never bought.
Symbols == {"A", "B", "C", "D", "E"}

Traded == {"A", "B"}

SymIndex(sym) == IF sym = "A" THEN 0 ELSE 1

\* The uuid4() drawn for an order or a fill of sym when its counter is at n.
Uuid(sym, n) == SymIndex(sym) * IdStride + n

\* ----------------------------------------------------------------- helpers
\* The one element of a singleton: {F(x) : x \in {e}} computes e once, as a
\* local variable assigned once is.
Only(S) == CHOOSE x \in S : TRUE

Max(a, b) == IF a >= b THEN a ELSE b

Abs(a) == IF a < 0 THEN -a ELSE a

RECURSIVE Gcd(_, _)
Gcd(a, b) == IF b = 0 THEN a ELSE Only({Gcd(y, x % y) : x \in {a}, y \in {b}})

\* The rational n/d in lowest terms with a positive denominator.
Rat(n, d) ==
    Only({LET g == Gcd(Abs(p), Abs(q))
              s == IF q < 0 THEN -1 ELSE 1
          IN  <<(s * p) \div g, (s * q) \div g>> : p \in {n}, q \in {d}})

RInt(n) == <<n, 1>>

RAdd(x, y) == Rat(x[1] * y[2] + y[1] * x[2], x[2] * y[2])

RSub(x, y) == Rat(x[1] * y[2] - y[1] * x[2], x[2] * y[2])

RMulInt(x, k) == Rat(x[1] * k, x[2])

RDivInt(x, k) == Rat(x[1], x[2] * k)

RLess(x, y) == x[1] * y[2] < y[1] * x[2]

\* math.ceil(a / b) for positive integers.
CeilDiv(a, b) == (a + b - 1) \div b

\* round(x, 2) of the rational cents n/d: nearest cent.
RoundCents(n, d) == (2 * n + d) \div (2 * d)

\* A function with key k set to v (dict[k] = v).
Put(f, k, v) == [x \in (DOMAIN f) \cup {k} |-> IF x = k THEN v ELSE f[x]]

\* A function without key k (dict.pop(k, None)).
Drop(f, k) == [x \in (DOMAIN f) \ {k} |-> f[x]]

Empty == [x \in {} |-> 0]

\* The keys of an id-keyed dict in insertion order.
RECURSIVE KeysAsc(_)
KeysAsc(S) ==
    IF S = {} THEN <<>>
    ELSE LET m == CHOOSE x \in S : \A y \in S : x <= y
         IN  <<m>> \o KeysAsc(S \ {m})

RECURSIVE SumQty(_, _)
SumQty(f, S) ==
    IF S = {} THEN 0
    ELSE LET x == CHOOSE y \in S : TRUE
         IN  f[x].quantity + SumQty(f, S \ {x})

\* hash(tuple(sorted(symbols))): what sorting keeps of a list is its multiset,
\* the number of occurrences of each symbol.  Distinct multisets are taken to
\* hash differently.
RECURSIVE Occurrences(_, _)
Occurrences(seq, x) ==
    IF seq = <<>> THEN 0
    ELSE (IF Head(seq) = x THEN 1 ELSE 0) + Occurrences(Tail(seq), x)

Range(seq) == {seq[i] : i \in 1..Len(seq)}

\* ------------------------------------------------------------------- state
VARIABLES
    positions,          \* JsonStateStore.positions: symbol -> Position
    orders,             \* JsonStateStore.orders: id -> Order
    fills,              \* JsonStateStore.fills: id -> Fill
    traded_dates,       \* JsonStateStore.traded_dates: symbol -> date
    processed_fill_ids, \* JsonStateStore.processed_fill_ids
    metrics,            \* JsonStateStore.metrics
    open_orders,        \* PaperBroker.open_orders: id -> Order
    eod_done_date,      \* Strategy._eod_done_date
    settings,           \* Settings
    today,              \* the calendar date now() returns
    next_id,            \* per symbol, how many uuid4() were drawn, plus one
    live,               \* the Alpaca backend and the AlpacaBroker in front of it
    scheduler,          \* MinuteScheduler: where its loop is, its clock and fields
    disk,               \* the content of the state file (Settings.STATE_FILE)
    obs                 \* what the last operation was and what it was given

vars == <<positions, orders, fills, traded_dates, processed_fill_ids, metrics,
          open_orders, eod_done_date, settings, today, next_id, live, scheduler,
          disk, obs>>

\* The state store and the broker as one value the handlers thread through.
World ==
    [positions |-> positions, orders |-> orders, fills |-> fills,
     traded_dates |-> traded_dates, processed_fill_ids |-> processed_fill_ids,
     metrics |-> metrics, open_orders |-> open_orders, next_id |-> next_id,
     live |-> live, scheduler |-> scheduler, disk |-> disk,
     backend |-> settings.BROKER_BACKEND]

NoMetrics ==
    [screener_date |-> 0, screener_hash_set |-> FALSE,
     screener_initial_hash |-> [s \in Symbols |-> 0],
     screener_refreshed |-> FALSE, max_invested_set |-> FALSE,
     max_invested_value |-> <<0, 1>>, max_invested_date |-> 0]

OpenStatus == {"NEW", "WORKING"}

\* None where a float is optional (Order.price, Quote.high).
NoneF == 0 - 1

Truthy(x) == x /= NoneF /\ x /= 0

\* The live side before anything happened.  venue: the orders the backend
\* holds, id -> order with whether it is still open; activities: the FILL
\* activities of the account, id -> fill; processed_fills:
\* AlpacaBroker.processed_fills; last_backfill_attempt:
\* Strategy._last_backfill_attempt as the scheduler minute of the attempt
\* (NoneF: none); clock: the minutes the scheduler has counted;
\* last_fill_poll: AlpacaBroker.last_fill_poll as the FILL activities of the
\* account that are not later than it.
NoLive ==
    [venue |-> Empty, activities |-> Empty, processed_fills |-> {},
     last_fill_poll |-> {},
     last_backfill_attempt |-> [s \in Symbols |-> NoneF], clock |-> 0]

\* The state file JsonStateStore._load writes when it finds none.
NoFile == [traded_dates |-> Empty, processed_fill_ids |-> {}, metrics |-> NoMetrics]

\* The scheduler before start() has run an iteration.  pc: where the loop of
\* start() is ("loop": at the test of the stop event, "wait": in the wait for
\* the next minute, "eod_poll" and "eod_sleep": inside the EOD callback on the
\* Alpaca backend, at a poll or in the sleep between two polls, "stopped":
\* start() has returned, "crashed": an exception has left start()); minute:
\* the time of day now() returns; stop: _stop_event; eod_done_date:
\* MinuteScheduler._eod_done_date (0: None); waited: the poll intervals the
\* EOD poll loop has slept; close_started: the FILL activities of the account
\* that are older than close_started of the EOD run.
NoScheduler ==
    [pc |-> "loop", minute |-> PREMARKET_START - 1, stop |-> FALSE,
     eod_done_date |-> 0, waited |-> 0, close_started |-> {}]

\* ------------------------------------------------------------ domain model
NewOrder(symbol, side, type, price, quantity, tag) ==
    [symbol |-> symbol, side |-> side, type |-> type, price |-> price,
     quantity |-> quantity, status |-> "NEW", tags |-> {tag}]

\* Order.mark_status
mark_status(order, status) == [order EXCEPT !.status = status]

\* Variant of apply_buy_fill that takes the mean of the old average and the
\* fill price, whatever the quantities.
apply_buy_fill_unweighted(pos, fill) ==
    [pos EXCEPT
        !.total_shares = pos.total_shares + fill.quantity,
        !.cash_invested = RAdd(pos.cash_invested, RInt(fill.price * fill.quantity)),
        !.avg_price = IF pos.total_shares = 0 THEN RInt(fill.price)
                      ELSE RDivInt(RAdd(pos.avg_price, RInt(fill.price)), 2)]

\* Position.apply_buy_fill
apply_buy_fill(pos, fill) ==
    LET total_cost == RAdd(RMulInt(pos.avg_price, pos.total_shares),
                           RInt(fill.price * fill.quantity))
        shares == pos.total_shares + fill.quantity
    IN  [pos EXCEPT
            !.total_shares = shares,
            !.cash_invested = RAdd(pos.cash_invested, RInt(fill.price * fill.quantity)),
            !.avg_price = IF shares /= 0 THEN RDivInt(total_cost, shares) ELSE RInt(0)]

\* Position.apply_sell_fill
apply_sell_fill(pos, fill) ==
    LET shares == pos.total_shares - fill.quantity
        proceeds == RInt(fill.price * fill.quantity)
        cost_basis == RMulInt(pos.avg_price, fill.quantity)
        pnl == RAdd(pos.realized_pnl, RSub(proceeds, cost_basis))
    IN  IF shares <= 0
        THEN [pos EXCEPT !.total_shares = 0, !.realized_pnl = pnl, !.closed = TRUE]
        ELSE [pos EXCEPT !.total_shares = shares, !.realized_pnl = pnl]

\* ------------------------------------------------------------ paper broker
\* PaperBroker.place_order: the accepted copy is WORKING and is kept open.
\* Yields the world and the id of the placed order.
PaperBroker_place_order(w, order) ==
    LET id == Uuid(order.symbol, w.next_id[order.symbol])
        order_copy == mark_status(order, "WORKING")
    IN  [w |-> [w EXCEPT !.open_orders = Put(w.open_orders, id, order_copy),
                         !.next_id[order.symbol] = @ + 1],
         id |-> id, placed |-> order_copy]

\* Variant of target_hit that looks at the day high whatever the flag says.
target_hit_any_high(order, quote, use_high_for_limits) ==
    \/ (quote.high /= NoneF /\ order.price /= NoneF /\ quote.high >= order.price)
    \/ (Truthy(quote.mid) /\ Truthy(order.price) /\ quote.mid >= order.price)

\* The limit-sell test of PaperBroker.simulate_minute.
target_hit(order, quote, use_high_for_limits) ==
    IF use_high_for_limits /\ quote.high /= NoneF /\ order.price /= NoneF
       /\ quote.high >= order.price
    THEN TRUE
    ELSE Truthy(quote.mid) /\ Truthy(order.price) /\ quote.mid >= order.price

\* The price a market order fills at.
market_price(order, quote) ==
    IF order.side = "SELL"
    THEN (IF Truthy(quote.bid) THEN quote.bid ELSE quote.last)
    ELSE (IF Truthy(quote.ask) THEN quote.ask ELSE quote.last)

\* One pass of the loop of simulate_minute over the ids still to visit.
\* acc = [fills, to_remove, next_id].
RECURSIVE simulate_orders(_, _, _, _, _)
simulate_orders(ids, oo, quotes, use_high_for_limits, acc) ==
    IF ids = <<>> THEN acc
    ELSE
      LET order_id == Head(ids)
          order == oo[order_id]
          has_quote == order.symbol \in DOMAIN quotes
          quote == quotes[order.symbol]
          fill_at(price) ==
              [acc EXCEPT
                 !.fills = Append(acc.fills,
                     [id |-> Uuid(order.symbol, acc.next_id[order.symbol]),
                      order_id |-> order_id,
                      symbol |-> order.symbol, quantity |-> order.quantity,
                      price |-> price, side |-> order.side]),
                 !.to_remove = acc.to_remove \cup {order_id},
                 !.next_id[order.symbol] = @ + 1]
          acc2 ==
              IF ~has_quote THEN acc
              ELSE IF order.type = "MARKET" THEN fill_at(market_price(order, quote))
              ELSE IF order.type = "LIMIT" /\ order.side = "SELL"
                      /\ target_hit(order, quote, use_high_for_limits)
                   THEN fill_at(order.price)
              ELSE acc
      IN  Only({simulate_orders(rest, oo, quotes, use_high_for_limits, a) :
                  rest \in {Tail(ids)}, a \in {acc2}})

\* PaperBroker.simulate_minute.  Yields the world and the list of fills.
PaperBroker_simulate_minute(w, quotes, use_high_for_limits) ==
    Only({[w |-> [w EXCEPT
                    !.open_orders = [i \in (DOMAIN w.open_orders) \ r.to_remove
                                       |-> w.open_orders[i]],
                    !.next_id = r.next_id],
           fills |-> r.fills] :
          r \in {simulate_orders(KeysAsc(DOMAIN w.open_orders), w.open_orders, quotes,
                                 use_high_for_limits,
                                 [fills |-> <<>>, to_remove |-> {},
                                  next_id |-> w.next_id])}})

\* ----------------------------------------------------------- alpaca broker
\* AlpacaBroker.place_order: the order is submitted to the backend, which
\* accepts it; the copy handed back carries the backend's id.  The backend's
\* status of a fresh order maps to NEW or WORKING; both are read alike (as
\* open) everywhere, WORKING is taken.
AlpacaBroker_place_order(w, order) ==
    LET id == Uuid(order.symbol, w.next_id[order.symbol])
        order_copy == mark_status(order, "WORKING")
        held == [symbol |-> order.symbol, side |-> order.side, type |-> order.type,
                 price |-> order.price, quantity |-> order.quantity, open |-> TRUE]
    IN  [w |-> [w EXCEPT !.live.venue = Put(w.live.venue, id, held),
                         !.next_id[order.symbol] = @ + 1],
         id |-> id, placed |-> order_copy]

\* AlpacaBroker.get_open_orders: the backend's open orders as Orders; the tags
\* are not known to the backend and come back empty.
AlpacaBroker_get_open_orders(w) ==
    [i \in {j \in DOMAIN w.live.venue : w.live.venue[j].open} |->
        [symbol |-> w.live.venue[i].symbol, side |-> w.live.venue[i].side,
         type |-> w.live.venue[i].type, price |-> w.live.venue[i].price,
         quantity |-> w.live.venue[i].quantity, status |-> "WORKING", tags |-> {}]]

\* AlpacaBroker.cancel_order
AlpacaBroker_cancel_order(w, order_id) ==
    IF order_id \in DOMAIN w.live.venue
    THEN [w EXCEPT !.live.venue[order_id].open = FALSE]
    ELSE w

\* The shares of a symbol the backend holds: bought minus sold.
VenueShares(w, sym) ==
    LET acts == w.live.activities
        of(side) == {i \in DOMAIN acts : acts[i].symbol = sym /\ acts[i].side = side}
    IN  SumQty(acts, of("BUY")) - SumQty(acts, of("SELL"))

RECURSIVE SumCost(_, _)
SumCost(f, S) ==
    IF S = {} THEN 0
    ELSE LET x == CHOOSE y \in S : TRUE
         IN  f[x].price * f[x].quantity + SumCost(f, S \ {x})

\* avg_entry_price of the backend's position: the mean price of the buys.
VenueAvgEntry(w, sym) ==
    LET acts == w.live.activities
        buys == {i \in DOMAIN acts : acts[i].symbol = sym /\ acts[i].side = "BUY"}
    IN  Rat(SumCost(acts, buys), SumQty(acts, buys))

\* AlpacaBroker.list_positions: the symbols the backend holds shares of.
AlpacaBroker_list_positions(w) == {sym \in Symbols : VenueShares(w, sym) > 0}

\* AlpacaBroker.simulate_minute: get_fills_since(last_fill_poll), the FILL
\* activities later than the watermark and not yet handed out, oldest first;
\* each is remembered in processed_fills, and the watermark moves to now.
AlpacaBroker_simulate_minute(w) ==
    LET fresh == ((DOMAIN w.live.activities) \ w.live.last_fill_poll)
                     \ w.live.processed_fills
        ids == KeysAsc(fresh)
    IN  [w |-> [w EXCEPT !.live.processed_fills = @ \cup fresh,
                         !.live.last_fill_poll = DOMAIN w.live.activities],
         fills |-> [k \in 1..Len(ids) |->
                      [id |-> ids[k],
                       order_id |-> w.live.activities[ids[k]].order_id,
                       symbol |-> w.live.activities[ids[k]].symbol,
                       quantity |-> w.live.activities[ids[k]].quantity,
                       price |-> w.live.activities[ids[k]].price,
                       side |-> w.live.activities[ids[k]].side]]]

\* AlpacaBroker.get_fills_since(after): the FILL activities later than the
\* watermark and not yet handed out, oldest first; each is remembered in
\* processed_fills.  older holds the activities up to the watermark.
AlpacaBroker_get_fills_since(w, older) ==
    LET fresh == ((DOMAIN w.live.activities) \ older) \ w.live.processed_fills
        ids == KeysAsc(fresh)
    IN  [w |-> [w EXCEPT !.live.processed_fills = @ \cup fresh],
         fills |-> [k \in 1..Len(ids) |->
                      [id |-> ids[k],
                       order_id |-> w.live.activities[ids[k]].order_id,
                       symbol |-> w.live.activities[ids[k]].symbol,
                       quantity |-> w.live.activities[ids[k]].quantity,
                       price |-> w.live.activities[ids[k]].price,
                       side |-> w.live.activities[ids[k]].side]]]

\* AlpacaBroker.close_all_positions(cancel_orders=True), when the backend
\* takes the request: every open order is cancelled and every position is
\* put up for sale at the market.
AlpacaBroker_close_all_positions(w) ==
    LET held == AlpacaBroker_list_positions(w)
        ids == {Uuid(sym, w.next_id[sym]) : sym \in held}
        of(i) == CHOOSE sym \in held : Uuid(sym, w.next_id[sym]) = i
    IN  [w EXCEPT
           !.live.venue =
               [i \in (DOMAIN w.live.venue) \cup ids |->
                   IF i \in ids
                   THEN [symbol |-> of(i), side |-> "SELL", type |-> "MARKET",
                         price |-> NoneF, quantity |-> VenueShares(w, of(i)),
                         open |-> TRUE]
                   ELSE [w.live.venue[i] EXCEPT !.open = FALSE]],
           !.next_id = [sym \in Symbols |->
                           IF sym \in held THEN w.next_id[sym] + 1
                           ELSE w.next_id[sym]]]

\* ---------------------------------------------------------------- brokers
\* self.broker.place_order
place_order(w, order) ==
    IF w.backend = "alpaca" THEN AlpacaBroker_place_order(w, order)
    ELSE PaperBroker_place_order(w, order)

\* self.broker.simulate_minute
simulate_minute(w, quotes, use_high_for_limits) ==
    IF w.backend = "alpaca" THEN AlpacaBroker_simulate_minute(w)
    ELSE PaperBroker_simulate_minute(w, quotes, use_high_for_limits)

\* ------------------------------------------------------------- state store
\* JsonStateStore.get_open_positions (the symbols of the open positions).
get_open_positions(w) == {sym \in DOMAIN w.positions : ~w.positions[sym].closed}

\* JsonStateStore._persist: the payload written to the state file.
persist(w) ==
    [w EXCEPT !.disk = [traded_dates |-> w.traded_dates,
                        processed_fill_ids |-> w.processed_fill_ids,
                        metrics |-> w.metrics]]

upsert_position(w, sym, pos) ==
    persist([w EXCEPT !.positions = Put(w.positions, sym, pos)])

upsert_order(w, id, order) == persist([w EXCEPT !.orders = Put(w.orders, id, order)])

record_fill(w, fill) ==
    persist([w EXCEPT !.fills = Put(w.fills, fill.id,
        [order_id |-> fill.order_id, symbol |-> fill.symbol,
         quantity |-> fill.quantity, price |-> fill.price, side |-> fill.side])])

record_processed_fill_id(w, fill_id) ==
    persist([w EXCEPT !.processed_fill_ids = w.processed_fill_ids \cup {fill_id}])

mark_traded(w, sym, iso_date) ==
    persist([w EXCEPT !.traded_dates = Put(w.traded_dates, sym, iso_date)])

\* JsonStateStore.clear
clear(w) ==
    persist([w EXCEPT !.positions = Empty, !.orders = Empty, !.fills = Empty,
                      !.traded_dates = Empty, !.processed_fill_ids = {},
                      !.metrics = NoMetrics])

\* JsonStateStore.set_metric for the keys a call has changed: one write of the
\* state file follows each of them.
set_metrics(w, metrics_after) ==
    IF metrics_after = w.metrics THEN w
    ELSE persist([w EXCEPT !.metrics = metrics_after])

\* JsonStateStore.record_invested_value
record_invested_value(w, value, iso_date) ==
    LET m1 == IF ~w.metrics.max_invested_set \/ w.metrics.max_invested_date /= iso_date
              THEN [w.metrics EXCEPT !.max_invested_set = TRUE,
                                     !.max_invested_value = RInt(0),
                                     !.max_invested_date = iso_date]
              ELSE w.metrics
        updated == RLess(m1.max_invested_value, value)
        m2 == IF updated
              THEN [m1 EXCEPT !.max_invested_value = value, !.max_invested_date = iso_date]
              ELSE m1
    IN  IF updated THEN persist([w EXCEPT !.metrics = m2])
        ELSE [w EXCEPT !.metrics = m2]

\* JsonStateStore._load with the state file in place: positions, orders and
\* fills start empty, the three maps of the file are read back.
load(w) ==
    [w EXCEPT !.positions = Empty, !.orders = Empty, !.fills = Empty,
              !.traded_dates = w.disk.traded_dates,
              !.processed_fill_ids = w.disk.processed_fill_ids,
              !.metrics = w.disk.metrics]

\* ---------------------------------------------------------------- strategy
OpenOrderIds(w, sym, side) ==
    {i \in DOMAIN w.orders :
        /\ w.orders[i].symbol = sym
        /\ w.orders[i].side = side
        /\ w.orders[i].status \in OpenStatus}

\* Variant of LadderTranches whose last tranche is a quarter like the others.
LadderTranches_quarters(total_shares) ==
    << [tag |-> "target_10", pct |-> 110, qty |-> total_shares \div 4],
       [tag |-> "target_20", pct |-> 120, qty |-> total_shares \div 4],
       [tag |-> "target_50", pct |-> 150, qty |-> total_shares \div 4],
       [tag |-> "target_100", pct |-> 200, qty |-> total_shares \div 4] >>

\* The four tranches of Strategy._place_targets: tag, price multiplier (percent)
\* and quantity.
LadderTranches(total_shares) ==
    LET first == total_shares \div 4
        second == total_shares \div 4
        third == total_shares \div 4
        fourth == total_shares - (first + second + third)
    IN  << [tag |-> "target_10", pct |-> 110, qty |-> first],
           [tag |-> "target_20", pct |-> 120, qty |-> second],
           [tag |-> "target_50", pct |-> 150, qty |-> third],
           [tag |-> "target_100", pct |-> 200, qty |-> fourth] >>

\* The loop of _place_targets over the tranches; st = [w, pos].
RECURSIVE place_tranches(_, _, _, _)
place_tranches(st, sym, entry_price, targets) ==
    IF targets = <<>> THEN st
    ELSE
      LET t == Head(targets)
          order == NewOrder(sym, "SELL", "LIMIT",
                            RoundCents(entry_price * t.pct, 100), t.qty, t.tag)
          r == place_order(st.w, order)
          st2 == IF t.qty <= 0 THEN st
                 ELSE [w |-> upsert_order(r.w, r.id, r.placed),
                       pos |-> [st.pos EXCEPT !.open_target_orders = Append(@, r.id)]]
      IN  place_tranches(st2, sym, entry_price, Tail(targets))

\* Strategy._place_targets; yields [w, pos].
place_targets(w, sym, pos, entry_price, total_shares) ==
    IF total_shares <= 0 \/ pos.closed THEN [w |-> w, pos |-> pos]
    ELSE IF OpenOrderIds(w, sym, "SELL") /= {} THEN [w |-> w, pos |-> pos]
    ELSE place_tranches([w |-> w, pos |-> pos], sym, entry_price,
                        LadderTranches(total_shares))

\* sum(f.quantity for f in fills.values() if f.order_id == order.id)
FilledQtyForOrder(w, order_id) ==
    SumQty(w.fills, {i \in DOMAIN w.fills : w.fills[i].order_id = order_id})

\* Variant of handle_buy_fill without the test for other open BUY orders.
handle_buy_fill_alone(w, order_id, order, fill, skip_targets, iso_today) ==
    LET sym == order.symbol
        p0 == IF sym \in DOMAIN w.positions
              THEN [apply_buy_fill(w.positions[sym], fill) EXCEPT !.closed = FALSE]
              ELSE [total_shares |-> fill.quantity,
                    avg_price |-> RInt(fill.price),
                    cash_invested |-> RInt(fill.price * fill.quantity),
                    realized_pnl |-> RInt(0),
                    open_target_orders |-> <<>>,
                    closed |-> FALSE,
                    last_entry_date |-> 0]
        position == [p0 EXCEPT !.last_entry_date = iso_today]
        deferred == mark_traded(upsert_position(w, sym, position), sym, iso_today)
    IN  IF skip_targets \/ "reconciled_fill" \in order.tags THEN deferred
        ELSE IF FilledQtyForOrder(w, order_id) < order.quantity THEN deferred
        ELSE LET r == place_targets(w, sym, position, fill.price, position.total_shares)
             IN  mark_traded(upsert_position(r.w, sym, r.pos), sym, iso_today)

\* Variant of handle_buy_fill without the test of skip_targets and of the
\* reconciled_fill tag.
handle_buy_fill_untagged(w, order_id, order, fill, skip_targets, iso_today) ==
    LET sym == order.symbol
        p0 == IF sym \in DOMAIN w.positions
              THEN [apply_buy_fill(w.positions[sym], fill) EXCEPT !.closed = FALSE]
              ELSE [total_shares |-> fill.quantity,
                    avg_price |-> RInt(fill.price),
                    cash_invested |-> RInt(fill.price * fill.quantity),
                    realized_pnl |-> RInt(0),
                    open_target_orders |-> <<>>,
                    closed |-> FALSE,
                    last_entry_date |-> 0]
        position == [p0 EXCEPT !.last_entry_date = iso_today]
        deferred == mark_traded(upsert_position(w, sym, position), sym, iso_today)
    IN  IF FilledQtyForOrder(w, order_id) < order.quantity THEN deferred
        ELSE IF OpenOrderIds(w, sym, "BUY") /= {} THEN deferred
        ELSE LET r == place_targets(w, sym, position, fill.price, position.total_shares)
             IN  mark_traded(upsert_position(r.w, sym, r.pos), sym, iso_today)

\* Strategy._handle_buy_fill
handle_buy_fill(w, order_id, order, fill, skip_targets, iso_today) ==
    LET sym == order.symbol
        p0 == IF sym \in DOMAIN w.positions
              THEN [apply_buy_fill(w.positions[sym], fill) EXCEPT !.closed = FALSE]
              ELSE [total_shares |-> fill.quantity,
                    avg_price |-> RInt(fill.price),
                    cash_invested |-> RInt(fill.price * fill.quantity),
                    realized_pnl |-> RInt(0),
                    open_target_orders |-> <<>>,
                    closed |-> FALSE,
                    last_entry_date |-> 0]
        position == [p0 EXCEPT !.last_entry_date = iso_today]
        deferred == mark_traded(upsert_position(w, sym, position), sym, iso_today)
    IN  IF skip_targets \/ "reconciled_fill" \in order.tags THEN deferred
        ELSE IF FilledQtyForOrder(w, order_id) < order.quantity THEN deferred
        ELSE IF OpenOrderIds(w, sym, "BUY") /= {} THEN deferred
        ELSE LET r == place_targets(w, sym, position, fill.price, position.total_shares)
             IN  mark_traded(upsert_position(r.w, sym, r.pos), sym, iso_today)

\* list.remove(x): the first occurrence goes.
RECURSIVE RemoveFirst(_, _)
RemoveFirst(seq, x) ==
    IF seq = <<>> THEN <<>>
    ELSE IF Head(seq) = x THEN Tail(seq)
    ELSE <<Head(seq)>> \o RemoveFirst(Tail(seq), x)

\* Variant of handle_sell_fill that leaves the filled order's id in
\* open_target_orders.
handle_sell_fill_keep_id(w, order_id, order, fill) ==
    IF order.symbol \notin DOMAIN w.positions THEN w
    ELSE upsert_position(w, order.symbol, apply_sell_fill(w.positions[order.symbol], fill))

\* Strategy._handle_sell_fill
handle_sell_fill(w, order_id, order, fill) ==
    LET sym == order.symbol
    IN  IF sym \notin DOMAIN w.positions THEN w
        ELSE
          LET p1 == apply_sell_fill(w.positions[sym], fill)
              p2 == [p1 EXCEPT !.open_target_orders = RemoveFirst(@, order_id)]
              p3 == IF p2.closed THEN [p2 EXCEPT !.open_target_orders = <<>>] ELSE p2
          IN  upsert_position(w, sym, p3)

\* The body of the loop of Strategy._process_fills for one fill.
process_fill(w, fill, reconciling, iso_today) ==
    LET known == fill.order_id \in DOMAIN w.orders
        side == IF fill.side = "NONE" THEN "BUY" ELSE fill.side
        placeholder == NewOrder(fill.symbol, side, "MARKET", NoneF, fill.quantity,
                                "reconciled_fill")
        order0 == IF known THEN w.orders[fill.order_id] ELSE placeholder
        skip_targets == reconciling \/ ~known \/ "reconciled_fill" \in order0.tags
        order == mark_status(order0, "FILLED")
        w1 == record_processed_fill_id(
                  record_fill(upsert_order(w, fill.order_id, order), fill), fill.id)
    IN  Only({IF order.side = "BUY"
              THEN handle_buy_fill(x, fill.order_id, order, fill, skip_targets, iso_today)
              ELSE handle_sell_fill(x, fill.order_id, order, fill) : x \in {w1}})

\* Strategy._process_fills
RECURSIVE process_fills(_, _, _, _)
process_fills(w, fill_list, reconciling, iso_today) ==
    IF fill_list = <<>> THEN w
    ELSE Only({process_fills(x, Tail(fill_list), reconciling, iso_today) :
                 x \in {process_fill(w, Head(fill_list), reconciling, iso_today)}})

\* dict restricted to some keys: what get_quotes(symbols) answers out of the
\* quotes the provider has this minute.
Restrict(f, S) == [x \in (DOMAIN f) \cap S |-> f[x]]

\* dict.update
Update(f, g) == [x \in (DOMAIN f) \cup (DOMAIN g) |-> IF x \in DOMAIN g THEN g[x] ELSE f[x]]

\* quote.last or quote.ask or quote.bid
price_from_quote(quote) ==
    IF Truthy(quote.last) THEN quote.last
    ELSE IF Truthy(quote.ask) THEN quote.ask
    ELSE quote.bid

\* Variant of shares_for that rounds down.
shares_for_floor(price_for_size) ==
    Max(1, (BASE_POSITION_DOLLARS * 100) \div price_for_size)

\* int(max(1, math.ceil(BASE_POSITION_DOLLARS / price_for_size)))
shares_for(price_for_size) ==
    Max(1, CeilDiv(BASE_POSITION_DOLLARS * 100, price_for_size))

\* The loop of Strategy._place_buys; st = [w, placed_symbols].
RECURSIVE place_buys(_, _, _, _, _)
place_buys(st, buy_candidates, quotes, finviz_prices, premarket) ==
    IF buy_candidates = <<>> THEN st
    ELSE
      LET symbol == Head(buy_candidates)
          has_px == symbol \in DOMAIN finviz_prices
          has_quote == symbol \in DOMAIN quotes
          skip == ~has_px /\ (~has_quote \/ ~Truthy(price_from_quote(quotes[symbol])))
          price_for_size == IF has_px THEN finviz_prices[symbol]
                            ELSE price_from_quote(quotes[symbol])
          live_premarket == premarket /\ st.w.backend = "alpaca"
          ask == IF Truthy(quotes[symbol].ask) THEN quotes[symbol].ask
                 ELSE price_for_size
          limit_price == IF has_px THEN RoundCents(finviz_prices[symbol] * 150, 100)
                         ELSE IF live_premarket
                         THEN RoundCents(Max(10000, ask * (10000 + PREMARKET_BUY_SLIPPAGE_BPS)),
                                         10000)
                         ELSE NoneF
          order_type == IF has_px \/ live_premarket THEN "LIMIT" ELSE "MARKET"
          order == NewOrder(symbol, "BUY", order_type, limit_price,
                            shares_for(price_for_size), "entry")
          r == place_order(st.w, order)
          st2 == IF skip THEN st
                 ELSE [w |-> upsert_order(r.w, r.id, r.placed),
                       placed_symbols |-> st.placed_symbols \cup {symbol}]
      IN  place_buys(st2, Tail(buy_candidates), quotes, finviz_prices, premarket)

\* Variant of screener_gate that unlocks on any change of the list, however
\* short the new list is.
screener_gate_any_change(m, screener_symbols, iso_today) ==
    LET m1 == IF m.screener_date /= iso_today
              THEN [m EXCEPT !.screener_date = iso_today,
                             !.screener_hash_set = FALSE,
                             !.screener_refreshed = FALSE]
              ELSE m
        cur_hash == [s \in Symbols |-> Occurrences(screener_symbols, s)]
    IN  IF ~m1.screener_hash_set
        THEN [m1 EXCEPT !.screener_hash_set = TRUE, !.screener_initial_hash = cur_hash]
        ELSE IF ~m1.screener_refreshed /\ cur_hash /= m1.screener_initial_hash
        THEN [m1 EXCEPT !.screener_refreshed = TRUE]
        ELSE m1

\* The refresh gate of Strategy.run_tick (lines 89-116); yields the metrics.
screener_gate(m, screener_symbols, iso_today) ==
    LET m1 == IF m.screener_date /= iso_today
              THEN [m EXCEPT !.screener_date = iso_today,
                             !.screener_hash_set = FALSE,
                             !.screener_refreshed = FALSE]
              ELSE m
        cur_hash == [s \in Symbols |-> Occurrences(screener_symbols, s)]
    IN  IF ~m1.screener_hash_set
        THEN [m1 EXCEPT !.screener_hash_set = TRUE, !.screener_initial_hash = cur_hash]
        ELSE IF ~m1.screener_refreshed /\ cur_hash /= m1.screener_initial_hash
                /\ Len(screener_symbols) >= FINVIZ_MIN_SYMBOLS
        THEN [m1 EXCEPT !.screener_refreshed = TRUE]
        ELSE m1

\* Variant of blocked_symbols that looks at the open positions only.
blocked_symbols_open_only(w, iso_today) == get_open_positions(w)

\* The symbols run_tick will not buy: open position, pending buy, traded today.
blocked_symbols(w, iso_today) ==
    LET pending_buys == {w.orders[i].symbol : i \in
                           {j \in DOMAIN w.orders : w.orders[j].side = "BUY"
                                                    /\ w.orders[j].status \in OpenStatus}}
        traded_today == {sym \in DOMAIN w.positions :
                            w.positions[sym].last_entry_date = iso_today}
                        \cup {sym \in DOMAIN w.traded_dates :
                                w.traded_dates[sym] = iso_today}
    IN  get_open_positions(w) \cup pending_buys \cup traded_today

RECURSIVE Filter(_, _)
Filter(seq, S) ==
    IF seq = <<>> THEN <<>>
    ELSE (IF Head(seq) \in S THEN <<>> ELSE <<Head(seq)>>) \o Filter(Tail(seq), S)

RECURSIVE InvestedValue(_, _)
InvestedValue(w, S) ==
    IF S = {} THEN RInt(0)
    ELSE LET sym == CHOOSE x \in S : TRUE
         IN  RAdd(RMulInt(w.positions[sym].avg_price, w.positions[sym].total_shares),
                  InvestedValue(w, S \ {sym}))

\* The cancel loop of _ensure_targets_for_positions over the open sells.
RECURSIVE cancel_sells(_, _)
cancel_sells(w, ids) ==
    IF ids = {} THEN w
    ELSE LET i == CHOOSE x \in ids : TRUE
         IN  cancel_sells(upsert_order(AlpacaBroker_cancel_order(w, i), i,
                                       mark_status(w.orders[i], "CANCELLED")),
                          ids \ {i})

\* The targets _ensure_targets_for_positions lays for the missing quantity.
BackfillTranches(missing) ==
    IF missing < 4
    THEN << [tag |-> "target_100", pct |-> 200, qty |-> missing] >>
    ELSE LadderTranches(missing)

\* The placing loop of _ensure_targets_for_positions; entry_price is the
\* rational avg_price; st = [w, pos].
RECURSIVE backfill_tranches(_, _, _, _)
backfill_tranches(st, sym, entry_price, targets) ==
    IF targets = <<>> THEN st
    ELSE
      LET t == Head(targets)
          order == NewOrder(sym, "SELL", "LIMIT",
                            RoundCents(entry_price[1] * t.pct, entry_price[2] * 100),
                            t.qty, t.tag)
          r == place_order(st.w, order)
          st2 == IF t.qty <= 0 THEN st
                 ELSE [w |-> upsert_order(r.w, r.id, r.placed),
                       pos |-> [st.pos EXCEPT !.open_target_orders = Append(@, r.id)]]
      IN  backfill_tranches(st2, sym, entry_price, Tail(targets))

\* Variant of ensure_targets_for without the cooldown.
ensure_targets_for_uncooled(w, sym) ==
    LET pos == w.positions[sym]
        open_sells == OpenOrderIds(w, sym, "SELL")
        qty_open == SumQty(w.orders, open_sells)
        ladder_required == IF pos.total_shares >= 4 THEN 4 ELSE 1
        reset == qty_open /= pos.total_shares \/ Cardinality(open_sells) < ladder_required
        w1 == cancel_sells(w, open_sells)
        r == backfill_tranches([w |-> w1, pos |-> pos], sym, pos.avg_price,
                               BackfillTranches(pos.total_shares))
    IN  IF pos.total_shares <= 0 \/ ~reset THEN w
        ELSE IF ~RLess(RInt(0), pos.avg_price) THEN w1
        ELSE [upsert_position(r.w, sym, r.pos) EXCEPT
                 !.live.last_backfill_attempt[sym] = w.live.clock]

\* Variant of ensure_targets_for that lays the new targets without cancelling
\* the open SELL orders.
ensure_targets_for_uncancelled(w, sym) ==
    LET pos == w.positions[sym]
        last_attempt == w.live.last_backfill_attempt[sym]
        cooling == /\ last_attempt /= NoneF
                   /\ (w.live.clock - last_attempt) * REFRESH_INTERVAL_SECONDS
                          < cooldown_seconds
        open_sells == OpenOrderIds(w, sym, "SELL")
        qty_open == SumQty(w.orders, open_sells)
        ladder_required == IF pos.total_shares >= 4 THEN 4 ELSE 1
        reset == qty_open /= pos.total_shares \/ Cardinality(open_sells) < ladder_required
        r == backfill_tranches([w |-> w, pos |-> pos], sym, pos.avg_price,
                               BackfillTranches(pos.total_shares))
    IN  IF cooling \/ pos.total_shares <= 0 \/ ~reset THEN w
        ELSE IF ~RLess(RInt(0), pos.avg_price) THEN w
        ELSE [upsert_position(r.w, sym, r.pos) EXCEPT
                 !.live.last_backfill_attempt[sym] = w.live.clock]

\* The body of the loop of Strategy._ensure_targets_for_positions for one
\* open position.
ensure_targets_for(w, sym) ==
    LET pos == w.positions[sym]
        last_attempt == w.live.last_backfill_attempt[sym]
        cooling == /\ last_attempt /= NoneF
                   /\ (w.live.clock - last_attempt) * REFRESH_INTERVAL_SECONDS
                          < cooldown_seconds
        open_sells == OpenOrderIds(w, sym, "SELL")
        qty_open == SumQty(w.orders, open_sells)
        ladder_required == IF pos.total_shares >= 4 THEN 4 ELSE 1
        reset == qty_open /= pos.total_shares \/ Cardinality(open_sells) < ladder_required
        w1 == cancel_sells(w, open_sells)
        r == backfill_tranches([w |-> w1, pos |-> pos], sym, pos.avg_price,
                               BackfillTranches(pos.total_shares))
    IN  IF cooling \/ pos.total_shares <= 0 \/ ~reset THEN w
        ELSE IF ~RLess(RInt(0), pos.avg_price) THEN w1
        ELSE [upsert_position(r.w, sym, r.pos) EXCEPT
                 !.live.last_backfill_attempt[sym] = w.live.clock]

\* Strategy._ensure_targets_for_positions
RECURSIVE ensure_targets_for_positions(_, _)
ensure_targets_for_positions(w, syms) ==
    IF syms = {} THEN w
    ELSE LET sym == CHOOSE x \in syms : TRUE
         IN  ensure_targets_for_positions(ensure_targets_for(w, sym), syms \ {sym})

\* The position loop of Strategy._refresh_state_from_broker.  unrealized_pl is
\* zero: the backend's prices do not move.
RECURSIVE rebuild_positions(_, _, _)
rebuild_positions(w, syms, iso_today) ==
    IF syms = {} THEN w
    ELSE LET sym == CHOOSE x \in syms : TRUE
             qty == VenueShares(w, sym)
             avg == VenueAvgEntry(w, sym)
             pos == [total_shares |-> qty,
                     avg_price |-> avg,
                     cash_invested |-> RMulInt(avg, qty),
                     realized_pnl |-> RInt(0),
                     open_target_orders |-> <<>>,
                     closed |-> FALSE,
                     last_entry_date |-> iso_today]
         IN  rebuild_positions(mark_traded(upsert_position(w, sym, pos), sym, iso_today),
                               syms \ {sym}, iso_today)

\* Strategy._refresh_state_from_broker
refresh_state_from_broker(w, iso_today) ==
    IF w.backend /= "alpaca" THEN w
    ELSE LET w1 == rebuild_positions([w EXCEPT !.positions = Empty],
                                     AlpacaBroker_list_positions(w), iso_today)
             open == AlpacaBroker_get_open_orders(w1)
             w2 == IF DOMAIN open = {} THEN w1
                   ELSE persist([w1 EXCEPT !.orders = Update(@, open)])
         IN  ensure_targets_for_positions(w2, get_open_positions(w2))

\* Strategy.run_tick from line 71 on, w being the state the refresh left.
run_tick_refreshed(w, screener_symbols, finviz_prices, quotes, regular, cfg, iso_today) ==
    LET positions0 == get_open_positions(w)
        blocked == blocked_symbols(w, iso_today)
        w1 == IF cfg.FINVIZ_REQUIRE_REFRESH_BEFORE_TRADING
              THEN set_metrics(w, screener_gate(w.metrics, screener_symbols, iso_today))
              ELSE w
        screener_ok == IF cfg.FINVIZ_REQUIRE_REFRESH_BEFORE_TRADING
                       THEN w1.metrics.screener_refreshed ELSE TRUE
        buy_candidates == IF screener_ok THEN Filter(screener_symbols, blocked) ELSE <<>>
        open_order_symbols == {w1.orders[i].symbol : i \in
                                 {j \in DOMAIN w1.orders : w1.orders[j].status \in OpenStatus}}
        buy_quotes == IF buy_candidates /= <<>>
                      THEN Restrict(quotes, Range(buy_candidates)) ELSE Empty
        pb == IF buy_candidates /= <<>>
              THEN place_buys([w |-> w1, placed_symbols |-> {}], buy_candidates,
                              buy_quotes, finviz_prices, ~regular)
              ELSE [w |-> w1, placed_symbols |-> {}]
        quick == simulate_minute(pb.w, Restrict(buy_quotes, pb.placed_symbols), FALSE)
        w2 == IF pb.placed_symbols /= {} /\ cfg.POST_BUY_FILL_POLL
              THEN Only({process_fills(q.w, q.fills, FALSE, iso_today) : q \in {quick}})
              ELSE pb.w
        combined_quotes ==
            Update(Update(Restrict(quotes, open_order_symbols),
                          Restrict(buy_quotes, pb.placed_symbols)),
                   Restrict(quotes, positions0))
        w3 == Only({record_invested_value(x, InvestedValue(x, positions0), iso_today) :
                      x \in {w2}})
        w4 == IF DOMAIN combined_quotes = {} THEN w3
              ELSE Only({process_fills(sm.w, sm.fills, FALSE, iso_today) :
                           sm \in {simulate_minute(x, combined_quotes, regular) :
                                     x \in {w3}}})
    IN  [w |-> w4, buy_candidates |-> buy_candidates,
         placed_symbols |-> pb.placed_symbols, screener_ok |-> screener_ok]

\* Strategy.run_tick.  screener_symbols and finviz_prices are what the
\* screener answers, quotes what the quote provider has this minute, regular
\* whether the time is at or past REGULAR_OPEN.
\* Yields [w, buy_candidates, placed_symbols, screener_ok].
run_tick(w_before, screener_symbols, finviz_prices, quotes, regular, cfg, iso_today) ==
    Only({run_tick_refreshed(w, screener_symbols, finviz_prices, quotes, regular,
                             cfg, iso_today) :
            w \in {refresh_state_from_broker(w_before, iso_today)}})

\* The open SELL orders of the state store.
OpenSells(w) ==
    {i \in DOMAIN w.orders :
        w.orders[i].side = "SELL" /\ w.orders[i].status \in OpenStatus}

\* The first loop of Strategy._run_paper_eod: open SELL orders are marked
\* CANCELLED in the state store (the broker is not told).
cancel_open_sells(w) ==
    IF OpenSells(w) = {} THEN w
    ELSE persist([w EXCEPT !.orders =
                    [i \in DOMAIN w.orders |->
                        IF i \in OpenSells(w) THEN mark_status(w.orders[i], "CANCELLED")
                        ELSE w.orders[i]]])

\* Variant of liquidate that places the closing order only for a symbol
\* that has a quote.
RECURSIVE liquidate_quoted(_, _, _, _)
liquidate_quoted(w, syms, quotes, iso_today) ==
    IF syms = {} THEN w
    ELSE
      LET sym == CHOOSE x \in syms : TRUE
          pos == w.positions[sym]
          order == NewOrder(sym, "SELL", "MARKET", NoneF, pos.total_shares,
                            "eod_liquidation")
          r == place_order(w, order)
          w1 == upsert_order(r.w, r.id, r.placed)
          sm == simulate_minute(w1, Restrict(quotes, {sym}), FALSE)
          w2 == process_fills(sm.w, sm.fills, FALSE, iso_today)
      IN  liquidate_quoted(IF pos.total_shares <= 0 \/ sym \notin DOMAIN quotes
                           THEN w ELSE w2,
                           syms \ {sym}, quotes, iso_today)

\* The liquidation loop of _run_paper_eod over the open positions.
RECURSIVE liquidate(_, _, _, _)
liquidate(w, syms, quotes, iso_today) ==
    IF syms = {} THEN w
    ELSE
      LET sym == CHOOSE x \in syms : TRUE
          pos == w.positions[sym]
          order == NewOrder(sym, "SELL", "MARKET", NoneF, pos.total_shares,
                            "eod_liquidation")
          r == place_order(w, order)
          w1 == upsert_order(r.w, r.id, r.placed)
          sm == simulate_minute(w1, Restrict(quotes, {sym}), FALSE)
          w2 == process_fills(sm.w, sm.fills, FALSE, iso_today)
      IN  liquidate(IF pos.total_shares <= 0 THEN w ELSE w2, syms \ {sym},
                    quotes, iso_today)

\* The "mark positions closed" loop of _run_paper_eod.
force_close_open(w, syms) ==
    IF syms \cap DOMAIN w.positions = {} THEN w
    ELSE persist([w EXCEPT !.positions =
                    [sym \in DOMAIN w.positions |->
                        IF sym \in syms
                        THEN [w.positions[sym] EXCEPT !.open_target_orders = <<>>,
                                                      !.total_shares = 0]
                        ELSE w.positions[sym]]])

\* Variant of force_close that leaves open_target_orders as it is.
force_close_listed(w, syms) ==
    IF syms \cap DOMAIN w.positions = {} THEN w
    ELSE persist([w EXCEPT !.positions =
                    [sym \in DOMAIN w.positions |->
                        IF sym \in syms
                        THEN [w.positions[sym] EXCEPT !.closed = TRUE,
                                                      !.total_shares = 0]
                        ELSE w.positions[sym]]])

force_close(w, syms) ==
    IF syms \cap DOMAIN w.positions = {} THEN w
    ELSE persist([w EXCEPT !.positions =
                    [sym \in DOMAIN w.positions |->
                        IF sym \in syms
                        THEN [w.positions[sym] EXCEPT !.closed = TRUE,
                                                      !.open_target_orders = <<>>,
                                                      !.total_shares = 0]
                        ELSE w.positions[sym]]])

\* Strategy._run_paper_eod up to the end of the liquidation loop (line 448).
paper_eod_liquidated(w, quotes, iso_today) ==
    LET w1 == cancel_open_sells(w)
        positions0 == get_open_positions(w1)
        symbols_to_sell == {sym \in positions0 : w1.positions[sym].total_shares > 0}
    IN  IF symbols_to_sell /= {}
        THEN liquidate(w1, positions0, Restrict(quotes, symbols_to_sell), iso_today)
        ELSE w1

\* Strategy._run_paper_eod; quotes is what buy_data has at that moment.
run_paper_eod(w, quotes, cfg, iso_today) ==
    LET w1 == cancel_open_sells(w)
        positions0 == get_open_positions(w1)
        w2 == paper_eod_liquidated(w, quotes, iso_today)
        w3 == force_close(w2, positions0)
    IN  IF positions0 = {} /\ DOMAIN w1.orders = {} THEN w1
        ELSE IF cfg.EOD_CLEAR_STATE THEN clear(w3)
        ELSE w3

\* Variant of run_eod_liquidation without the test of the done marker.
run_eod_liquidation_unguarded(w, done_date, quotes, cfg, iso_today) ==
    [w |-> run_paper_eod(w, quotes, cfg, iso_today),
     eod_done_date |-> iso_today, ran |-> TRUE]

\* Strategy.run_eod_liquidation on the paper broker: nothing is done when the
\* liquidation of this date is done.  Yields [w, eod_done_date, ran].
run_eod_liquidation(w, done_date, quotes, cfg, iso_today) ==
    IF done_date = iso_today
    THEN [w |-> w, eod_done_date |-> done_date, ran |-> FALSE]
    ELSE [w |-> run_paper_eod(w, quotes, cfg, iso_today),
          eod_done_date |-> iso_today, ran |-> TRUE]

\* Variant of alpaca_eod_polled that takes the fills from the broker and
\* hands none of them to _process_fills.
alpaca_eod_polled_dropped(w, iso_today) ==
    LET r == AlpacaBroker_get_fills_since(w, w.scheduler.close_started)
    IN  [w |-> r.w,
         reported |-> {r.fills[k].id : k \in 1..Len(r.fills)},
         processed |-> <<>>]

\* One pass of the poll loop of Strategy._run_alpaca_eod up to the test for
\* flatness (lines 477-485): the fills since close_started that the store
\* has not processed are processed.  reported: the ids get_fills_since
\* answered; processed: the ids handed to _process_fills, in order.
alpaca_eod_polled(w, iso_today) ==
    Only({[w |-> process_fills(r.w, new_fills, FALSE, iso_today),
           reported |-> {r.fills[k].id : k \in 1..Len(r.fills)},
           processed |-> [k \in 1..Len(new_fills) |-> new_fills[k].id]] :
          <<r, new_fills>> \in
              {<<g, SelectSeq(g.fills, LAMBDA f : f.id \notin g.w.processed_fill_ids)>> :
                 g \in {AlpacaBroker_get_fills_since(w, w.scheduler.close_started)}}})

\* if not open_positions and not open_orders (lines 484-487)
alpaca_flat(w) ==
    /\ AlpacaBroker_list_positions(w) = {}
    /\ DOMAIN AlpacaBroker_get_open_orders(w) = {}

\* Strategy._run_alpaca_eod after the poll loop (lines 501-510).
alpaca_eod_finished(w, cfg) ==
    LET w1 == force_close(w, DOMAIN w.positions)
    IN  IF cfg.EOD_CLEAR_STATE THEN clear(w1) ELSE w1

\* Variant of alpaca_eod_timed_out that goes on to the code after the loop.
alpaca_eod_timed_out_closed(w, cfg) == alpaca_eod_finished(w, cfg)

\* Strategy._run_alpaca_eod past the deadline and not flat (lines 489-497):
\* it returns; nothing is closed, cleared or marked.
alpaca_eod_timed_out(w, cfg) == w

\* ------------------------------------------------------------------ inputs
\* Quotes the provider may answer for a symbol (bid, ask, last, mid, high).
Quote(bid, ask, last, mid, high) ==
    [bid |-> bid, ask |-> ask, last |-> last, mid |-> mid, high |-> high]

\* bid = ask = last = c as the Finnhub provider builds them, high = h.
FlatQuote(c, h) == Quote(c, c, c, c, h)

\* What the provider may have for a symbol in one minute.  B is a symbol the
\* provider has no quote for.
QuoteSet(sym) ==
    IF sym = "A"
    THEN { Quote(4950, 5000, 5000, 4975, 5500),  \* 20 shares at 50.00; day high 55.00
           FlatQuote(5600, NoneF) }              \* 18 shares at 56.00; mid over 55.00
    ELSE { }

AllQuotes == UNION {QuoteSet(x) : x \in Symbols}

Quotes ==
    UNION {{q \in [S -> AllQuotes] : \A x \in S : q[x] \in QuoteSet(x)} :
             S \in SUBSET Symbols}

\* Screener price column: absent, or 50.00 for B.
FinvizPrices == {Empty, [x \in {"B"} |-> 5000]}

ScreenerLists == UNION {[1..n -> Traded] : n \in 0..MaxList}

\* The inputs of one tick.  Inputs that differ only in what the tick does not
\* read are given once: the price of a symbol the screener does not list, and
\* the time of day when no quote carries a day high other than its mid.
TickInputs ==
    {i \in [screener_symbols : ScreenerLists, finviz_prices : FinvizPrices,
            quotes : Quotes, regular : BOOLEAN] :
        /\ DOMAIN i.finviz_prices \subseteq Range(i.screener_symbols)
        /\ i.regular \/ \E x \in DOMAIN i.quotes :
                           i.quotes[x].high \notin {NoneF, i.quotes[x].mid}}

\* Settings.  POST_BUY_FILL_POLL stands for POST_BUY_FILL_POLL_SECONDS > 0.
\* DefaultConfig holds the defaults of config.py; NoGateConfig turns the
\* refresh gate off (FINVIZ_REQUIRE_REFRESH_BEFORE_TRADING=false).
DefaultConfig ==
    [FINVIZ_REQUIRE_REFRESH_BEFORE_TRADING |-> TRUE,
     POST_BUY_FILL_POLL |-> TRUE,
     EOD_CLEAR_STATE |-> TRUE,
     BROKER_BACKEND |-> "paper",
     ALLOW_WEEKEND_TRADING |-> FALSE]

NoGateConfig == [DefaultConfig EXCEPT !.FINVIZ_REQUIRE_REFRESH_BEFORE_TRADING = FALSE]

\* EOD_CLEAR_STATE=false, the refresh gate off.
KeepConfig == [NoGateConfig EXCEPT !.EOD_CLEAR_STATE = FALSE]

\* BROKER_BACKEND=alpaca, the refresh gate off.
LiveConfig == [NoGateConfig EXCEPT !.BROKER_BACKEND = "alpaca"]

\* ----------------------------------------------------------------- actions
\* History carried from one observation to the next.  With the refresh gate
\* on: the date of the last tick and the date on which a tick last found the
\* gate open (0: none).  redelivered counts the fills handed to fill
\* processing a second time.
NoHistory ==
    [ticked |-> 0, unlocked |-> 0, redelivered |-> 0,
     tick_raised |-> FALSE, eod_returned |-> 0, eod_failed |-> 0,
     eod_retried |-> 0, restarted |-> 0, prestart |-> {}, started |-> 0]

HistoryAfterTick(screener_ok) ==
    IF settings.FINVIZ_REQUIRE_REFRESH_BEFORE_TRADING
    THEN [obs.hist EXCEPT !.ticked = today,
                          !.unlocked = IF screener_ok THEN today ELSE @]
    ELSE obs.hist

Commit(w) ==
    /\ \A sym \in Symbols : w.next_id[sym] <= MaxId + 1
    /\ positions' = w.positions
    /\ orders' = w.orders
    /\ fills' = w.fills
    /\ traded_dates' = w.traded_dates
    /\ processed_fill_ids' = w.processed_fill_ids
    /\ metrics' = w.metrics
    /\ open_orders' = w.open_orders
    /\ next_id' = w.next_id
    /\ live' = w.live
    /\ scheduler' = w.scheduler
    /\ disk' = w.disk

InitWith(cfg) ==
    /\ positions = Empty
    /\ orders = Empty
    /\ fills = Empty
    /\ traded_dates = Empty
    /\ processed_fill_ids = {}
    /\ metrics = NoMetrics
    /\ open_orders = Empty
    /\ eod_done_date = 0
    /\ settings = cfg
    /\ today = 1
    /\ next_id = [sym \in Symbols |-> 1]
    /\ live = NoLive
    /\ scheduler = NoScheduler
    /\ disk = NoFile
    /\ obs = [op |-> "init", hist |-> NoHistory]

\* One scheduler tick: Strategy.run_tick.
Tick ==
    \E i \in TickInputs :
      \E r \in {run_tick(World, i.screener_symbols, i.finviz_prices, i.quotes,
                          i.regular, settings, today)} :
            /\ Commit(r.w)
            /\ obs' = [op |-> "tick", hist |-> HistoryAfterTick(r.screener_ok),
                       screener_symbols |-> i.screener_symbols,
                       buy_candidates |-> r.buy_candidates,
                       screener_ok |-> r.screener_ok]
            /\ UNCHANGED <<eod_done_date, settings, today>>

\* One call of Strategy.run_eod_liquidation.
Eod ==
    \E quotes \in Quotes :
      \E r \in {run_eod_liquidation(World, eod_done_date, quotes, settings, today)} :
        /\ Commit(r.w)
        /\ eod_done_date' = r.eod_done_date
        /\ obs' = [op |-> IF r.ran THEN "eod" ELSE "eod_skipped", hist |-> obs.hist]
        /\ UNCHANGED <<settings, today>>

\* Midnight passes.
NextDay ==
    /\ today < MaxDay
    /\ today' = today + 1
    /\ obs' = [op |-> "day", hist |-> obs.hist]
    /\ UNCHANGED <<positions, orders, fills, traded_dates, processed_fill_ids,
                   metrics, open_orders, eod_done_date, settings, next_id, live,
                   scheduler, disk>>

Init == InitWith(NoGateConfig)

Next == Tick \/ Eod \/ NextDay

Spec == Init /\ [][Next]_vars

\* ------------------------------------------------------------------ sizing
\* The first tick of a run (no order placed yet), listing one symbol at a price
\* taken from a family that makes the order quantity range over
\* 1..MaxLadderQty.  A is quoted at the price (bid = ask = last), with no day
\* high or with a day high at the first target; B has the price in the
\* screener's price column and no quote.
SizingPrices == {10 * CeilDiv(BASE_POSITION_DOLLARS * 10, q) : q \in 1..MaxLadderQty}

SizingInputs ==
    {i \in [symbol : Traded, price : SizingPrices, with_high : BOOLEAN,
            regular : BOOLEAN] :
        /\ i.regular \/ i.with_high
        /\ i.symbol = "B" => (i.regular /\ ~i.with_high)}

SizingTick ==
    \E i \in SizingInputs :
      LET high == IF i.with_high THEN RoundCents(i.price * 110, 100) ELSE NoneF
          quotes == IF i.symbol = "A"
                    THEN [x \in {"A"} |-> FlatQuote(i.price, high)] ELSE Empty
          finviz_prices == IF i.symbol = "B"
                           THEN [x \in {"B"} |-> i.price] ELSE Empty
      IN  \E r \in {run_tick(World, <<i.symbol>>, finviz_prices, quotes, i.regular,
                              settings, today)} :
            /\ orders = Empty
            /\ Commit(r.w)
            /\ obs' = [op |-> "tick", hist |-> HistoryAfterTick(r.screener_ok),
                       screener_symbols |-> <<i.symbol>>,
                       buy_candidates |-> r.buy_candidates,
                       screener_ok |-> r.screener_ok, price |-> i.price]
            /\ UNCHANGED <<eod_done_date, settings, today>>

NextSizing == SizingTick

SpecSizing == Init /\ [][NextSizing]_vars

\* ------------------------------------------------------------ refresh gate
\* The program with the refresh gate on (the defaults of config.py).  The
\* screener answers one of a few lists: none, the five symbols in two orders,
\* four of them, and five entries of which one is listed twice.
GateLists ==
    { <<>>,
      <<"A", "B", "C", "D", "E">>,
      <<"E", "D", "C", "B", "A">>,
      <<"A", "B", "C", "D">>,
      <<"A", "B", "C", "D", "D">> }

GateQuotes == {Empty, [x \in {"A"} |-> Quote(4950, 5000, 5000, 4975, 5500)]}

GateTick ==
    \E screener_symbols \in GateLists, quotes \in GateQuotes :
      \E r \in {run_tick(World, screener_symbols, Empty, quotes, FALSE, settings, today)} :
        /\ Commit(r.w)
        /\ obs' = [op |-> "tick", hist |-> HistoryAfterTick(r.screener_ok),
                   screener_symbols |-> screener_symbols,
                   buy_candidates |-> r.buy_candidates,
                   screener_ok |-> r.screener_ok]
        /\ UNCHANGED <<eod_done_date, settings, today>>

InitGate == InitWith(DefaultConfig)

NextGate == GateTick \/ Eod \/ NextDay

SpecGate == InitGate /\ [][NextGate]_vars

\* -------------------------------------------------------------- redelivery
\* A fill the store already holds (its id is in the dedupe set) is handed to
\* Strategy._process_fills once more, as a backend that reports a fill twice
\* would have it.
Redeliver ==
    \E fill_id \in DOMAIN fills :
      LET f == fills[fill_id]
          fill == [id |-> fill_id, order_id |-> f.order_id, symbol |-> f.symbol,
                   quantity |-> f.quantity, price |-> f.price, side |-> f.side]
      IN  /\ obs.hist.redelivered < MaxRedeliver
          /\ fill_id \in processed_fill_ids
          /\ Commit(process_fills(World, <<fill>>, FALSE, today))
          /\ obs' = [op |-> "redeliver", hist |-> [obs.hist EXCEPT !.redelivered = @ + 1]]
          /\ UNCHANGED <<eod_done_date, settings, today>>

NextRedeliver == Tick \/ Eod \/ NextDay \/ Redeliver

SpecRedeliver == Init /\ [][NextRedeliver]_vars

\* ------------------------------------------------------------ broker alone
\* PaperBroker driven directly, as tests/test_paper_broker.py drives it: orders
\* are placed, and simulate_minute is called with quotes around the limit
\* prices 10.00 and 11.00.
BrokerOrders ==
    {NewOrder("A", "SELL", "LIMIT", 1000, 10, "target_10"),
     NewOrder("A", "SELL", "LIMIT", 1100, 5, "target_20"),
     NewOrder("A", "SELL", "MARKET", NoneF, 10, "eod_liquidation"),
     NewOrder("A", "BUY", "LIMIT", 1500, 10, "entry"),
     NewOrder("B", "SELL", "LIMIT", 1000, 10, "target_10")}

BrokerQuotes ==
    LET forA == {Quote(1050, 1150, 1100, 1100, NoneF),   \* mid over both limits
                 Quote(1000, 1040, 1020, 1020, 1100),    \* mid between, high at 11.00
                 Quote(900, 1000, 950, 950, 1000),       \* mid under, high at 10.00
                 Quote(900, 1000, 950, 950, NoneF)}      \* mid under, no high
    IN  {Empty} \cup {[x \in {"A"} |-> q] : q \in forA}

BrokerPlace ==
    \E order \in BrokerOrders :
        /\ Cardinality(DOMAIN open_orders) < MaxOpen
        /\ Commit(PaperBroker_place_order(World, order).w)
        /\ obs' = [op |-> "place", hist |-> obs.hist]
        /\ UNCHANGED <<eod_done_date, settings, today>>

BrokerMinute ==
    \E quotes \in BrokerQuotes, use_high_for_limits \in BOOLEAN :
      \E r \in {PaperBroker_simulate_minute(World, quotes, use_high_for_limits)} :
        /\ Commit(r.w)
        /\ obs' = [op |-> "minute", hist |-> obs.hist, quotes |-> quotes,
                   use_high_for_limits |-> use_high_for_limits, fills |-> r.fills]
        /\ UNCHANGED <<eod_done_date, settings, today>>

NextBroker == BrokerPlace \/ BrokerMinute

SpecBroker == Init /\ [][NextBroker]_vars

\* ------------------------------------------------------------ live backend
\* The program on the Alpaca backend (BROKER_BACKEND=alpaca).  Between two
\* ticks the backend may fill an open BUY order, in part or to the end, at
\* 50.00; it accepts every order and never fills a target.  The scheduler
\* ticks once every REFRESH_INTERVAL_SECONDS.
LiveLists == { <<>>, <<"A">> }

LiveQuotes == {Empty, [x \in {"A"} |-> FlatQuote(5000, NoneF)]}

\* The share counts the backend fills a BUY order by, short of the rest.
PartialFills == {8, 12}

VenueFilled(order_id) ==
    SumQty(live.activities,
           {i \in DOMAIN live.activities : live.activities[i].order_id = order_id})

VenueFill ==
    \E order_id \in DOMAIN live.venue :
      LET held == live.venue[order_id]
          rest == held.quantity - VenueFilled(order_id)
      IN  \E q \in PartialFills \cup {rest} :
            LET id == Uuid(held.symbol, next_id[held.symbol])
                act == [order_id |-> order_id, symbol |-> held.symbol,
                        quantity |-> q, price |-> 5000, side |-> "BUY",
                        date |-> today]
            IN  /\ held.open /\ held.side = "BUY"
                /\ q <= rest
                /\ Commit([World EXCEPT
                             !.live.activities = Put(@, id, act),
                             !.live.venue[order_id].open = q < rest,
                             !.next_id[held.symbol] = @ + 1])
                /\ obs' = [op |-> "venue_fill", hist |-> obs.hist]
                /\ UNCHANGED <<eod_done_date, settings, today>>

LiveTick ==
    \E screener_symbols \in LiveLists, quotes \in LiveQuotes, regular \in BOOLEAN :
      \E r \in {run_tick(World, screener_symbols, Empty, quotes, regular, settings, today)} :
        /\ live.clock < MaxMinute
        /\ Commit([r.w EXCEPT !.live.clock = @ + 1])
        /\ obs' = [op |-> "tick", hist |-> HistoryAfterTick(r.screener_ok),
                   screener_symbols |-> screener_symbols,
                   buy_candidates |-> r.buy_candidates,
                   screener_ok |-> r.screener_ok]
        /\ UNCHANGED <<eod_done_date, settings, today>>

InitLive == InitWith(LiveConfig)

NextLive == LiveTick \/ VenueFill

SpecLive == InitLive /\ [][NextLive]_vars

\* --------------------------------------------------------- the order book
\* The program with EOD_CLEAR_STATE on (the default) or off, the quotes the
\* EOD run was given being kept in the observation.
EodSeen ==
    \E quotes \in Quotes :
      \E r \in {run_eod_liquidation(World, eod_done_date, quotes, settings, today)} :
        /\ Commit(r.w)
        /\ eod_done_date' = r.eod_done_date
        /\ obs' = [op |-> IF r.ran THEN "eod" ELSE "eod_skipped", hist |-> obs.hist,
                   quotes |-> quotes]
        /\ UNCHANGED <<settings, today>>

InitBook == InitWith(NoGateConfig) \/ InitWith(KeepConfig)

NextBook == Tick \/ EodSeen \/ NextDay

SpecBook == InitBook /\ [][NextBook]_vars

\* ------------------------------------------------------------ fills alone
\* Strategy._process_fills handed one fill at a time for symbol A, as a
\* backend reporting fills of orders the store does not know does: BUY fills
\* at a few prices and quantities, and SELL fills of no more shares than the
\* position holds.
FillPrices == {4000, 5000, 7000}

FillQuantities == {1, 3, 10}

FillOf(side, price, quantity) ==
    [id |-> Uuid("A", next_id["A"]), order_id |-> Uuid("A", next_id["A"] + 1),
     symbol |-> "A", quantity |-> quantity, price |-> price, side |-> side]

FillBuy ==
    \E price \in FillPrices, quantity \in FillQuantities :
      \E fill \in {FillOf("BUY", price, quantity)} :
        /\ Cardinality(DOMAIN fills) < MaxFills
        /\ Commit([process_fills(World, <<fill>>, FALSE, today)
                     EXCEPT !.next_id["A"] = @ + 2])
        /\ obs' = [op |-> "fill", hist |-> obs.hist, fill |-> fill]
        /\ UNCHANGED <<eod_done_date, settings, today>>

FillSell ==
    \E price \in FillPrices, quantity \in FillQuantities :
      \E fill \in {FillOf("SELL", price, quantity)} :
        /\ Cardinality(DOMAIN fills) < MaxFills
        /\ "A" \in DOMAIN positions
        /\ quantity <= positions["A"].total_shares
        /\ Commit([process_fills(World, <<fill>>, FALSE, today)
                     EXCEPT !.next_id["A"] = @ + 2])
        /\ obs' = [op |-> "fill", hist |-> obs.hist, fill |-> fill]
        /\ UNCHANGED <<eod_done_date, settings, today>>

\* A further fill of an order the store has.
FillAgain ==
    \E order_id \in DOMAIN orders, price \in FillPrices, quantity \in FillQuantities :
      \E fill \in {[id |-> Uuid("A", next_id["A"]), order_id |-> order_id,
                    symbol |-> "A", quantity |-> quantity, price |-> price,
                    side |-> orders[order_id].side]} :
        /\ Cardinality(DOMAIN fills) < MaxFills
        /\ fill.side = "SELL" =>
              ("A" \in DOMAIN positions /\ quantity <= positions["A"].total_shares)
        /\ Commit([process_fills(World, <<fill>>, FALSE, today)
                     EXCEPT !.next_id["A"] = @ + 1])
        /\ obs' = [op |-> "fill", hist |-> obs.hist, fill |-> fill]
        /\ UNCHANGED <<eod_done_date, settings, today>>

NextFills == FillBuy \/ FillSell \/ FillAgain \/ NextDay

SpecFills == Init /\ [][NextFills]_vars

\* --------------------------------------------------------------- scheduler
\* MinuteScheduler.start driving the Strategy.  No market hours provider is
\* set: the window comes from the settings (lines 43-46).  The clock shows
\* one of SchedMinutes when the loop reads it and moves on while the loop
\* waits; date 1 is a Friday.  tick() and the EOD callback either run or
\* raise before they have changed anything.
weekday(date) == (date + 3) % 7

SchedMinutes ==
    <<PREMARKET_START - 1, PREMARKET_START, REGULAR_OPEN, REGULAR_CLOSE,
      REGULAR_CLOSE + 1, REGULAR_CLOSE + 2>>

\* Variant of is_within_trading_hours without the test of the weekday.
is_within_trading_hours_any_day(date, minute, premarket_start, regular_open, regular_close, allow_weekends) ==
    premarket_start <= minute /\ minute <= regular_close

\* shared/time_utils.is_within_trading_hours, the time of current in minutes.
is_within_trading_hours(date, minute, premarket_start, regular_open, regular_close, allow_weekends) ==
    IF ~allow_weekends /\ weekday(date) >= 5 THEN FALSE
    ELSE premarket_start <= minute /\ minute <= regular_close

\* The test start() makes of the clock it has read (lines 47-53).
within(s, cfg, date) ==
    is_within_trading_hours(date, s.minute, PREMARKET_START, REGULAR_OPEN,
                            REGULAR_CLOSE, cfg.ALLOW_WEEKEND_TRADING)

\* The condition under which start() calls the EOD callback (lines 68-73).
eod_due(s, cfg, date) ==
    /\ s.minute >= REGULAR_CLOSE
    /\ s.eod_done_date /= date
    /\ (cfg.ALLOW_WEEKEND_TRADING \/ weekday(date) < 5)

\* Variant of after_tick without the try/except around self.tick().
after_tick_uncaught(s, raised) ==
    [s EXCEPT !.pc = IF raised THEN "crashed" ELSE "wait"]

\* start() once self.tick() has returned or raised (lines 55-58): on to the
\* wait for the next minute.
after_tick(s, raised) == [s EXCEPT !.pc = "wait"]

\* Variant of after_eod that sets the done marker whatever the callback did.
after_eod_marked(s, eod_complete, raised, date) ==
    [s EXCEPT !.pc = "wait", !.eod_done_date = date, !.waited = 0,
              !.close_started = {}]

\* start() once the EOD callback has returned eod_complete or raised
\* (lines 74-81).
after_eod(s, eod_complete, raised, date) ==
    [s EXCEPT !.pc = "wait",
              !.eod_done_date = IF ~raised /\ Truthy(eod_complete) THEN date ELSE @,
              !.waited = 0, !.close_started = {}]

\* What Strategy.run_eod_liquidation returns: it has no return statement.
eod_result == NoneF

\* History of the EOD callback: eod_retried, the date on which it was called
\* after a call of the same date had failed; eod_returned, the date on which
\* a call last came back without an exception; eod_failed, the date on which
\* a call last raised or came back with a falsy value.
HistoryAtEod ==
    [obs.hist EXCEPT !.eod_retried = IF obs.hist.eod_failed = today THEN today ELSE @]

HistoryAfterEod(hist, raised) ==
    [hist EXCEPT !.eod_returned = IF raised THEN @ ELSE today,
                 !.eod_failed = IF raised \/ ~Truthy(eod_result) THEN today ELSE @]

\* An iteration of start() inside the window: tick().
SchedTick ==
    \E screener_symbols \in LiveLists, quotes \in LiveQuotes, raised \in BOOLEAN :
      \E r \in {IF raised
                 THEN [w |-> World, buy_candidates |-> <<>>, screener_ok |-> FALSE]
                 ELSE run_tick(World, screener_symbols, Empty, quotes,
                               scheduler.minute >= REGULAR_OPEN, settings, today)} :
        /\ scheduler.pc = "loop" /\ ~scheduler.stop
        /\ within(scheduler, settings, today)
        /\ raised => (screener_symbols = <<>> /\ quotes = Empty)
        /\ Commit([r.w EXCEPT !.scheduler = after_tick(scheduler, raised),
                              !.live.clock = IF raised THEN @ ELSE @ + 1])
        /\ obs' = [op |-> "iteration", invoked |-> "tick", raised |-> raised,
                   hist |-> [obs.hist EXCEPT !.tick_raised = @ \/ raised]]
        /\ UNCHANGED <<eod_done_date, settings, today>>

\* An iteration of start() outside the window with the EOD callback due, on
\* the paper broker: Strategy.run_eod_liquidation runs to its end.
SchedEod ==
    \E quotes \in LiveQuotes, raised \in BOOLEAN :
      \E r \in {IF raised
                 THEN [w |-> World, eod_done_date |-> eod_done_date, ran |-> FALSE]
                 ELSE run_eod_liquidation(World, eod_done_date, quotes, settings,
                                          today)} :
        /\ scheduler.pc = "loop" /\ ~scheduler.stop
        /\ ~within(scheduler, settings, today)
        /\ eod_due(scheduler, settings, today)
        /\ settings.BROKER_BACKEND = "paper"
        /\ raised => quotes = Empty
        /\ Commit([r.w EXCEPT !.scheduler =
                                 after_eod(scheduler, eod_result, raised, today)])
        /\ eod_done_date' = r.eod_done_date
        /\ obs' = [op |-> "iteration", invoked |-> "eod", raised |-> raised,
                   hist |-> HistoryAfterEod(HistoryAtEod, raised)]
        /\ UNCHANGED <<settings, today>>

\* An iteration of start() outside the window with the EOD callback due, on
\* the Alpaca backend: Strategy.run_eod_liquidation returns at once when the
\* liquidation of this date is done or close_all_positions fails (accepted:
\* whether the backend takes the request), else it enters its poll loop.
SchedEodLive ==
    \E accepted \in BOOLEAN :
      LET polling == eod_done_date /= today /\ accepted
      IN  /\ scheduler.pc = "loop" /\ ~scheduler.stop
          /\ ~within(scheduler, settings, today)
          /\ eod_due(scheduler, settings, today)
          /\ settings.BROKER_BACKEND = "alpaca"
          /\ eod_done_date = today => accepted
          /\ Commit(IF polling
                    THEN [AlpacaBroker_close_all_positions(World) EXCEPT
                            !.scheduler.pc = "eod_poll",
                            !.scheduler.close_started = DOMAIN live.activities]
                    ELSE [World EXCEPT !.scheduler =
                            after_eod(scheduler, eod_result, FALSE, today)])
          /\ obs' = [op |-> "iteration", invoked |-> "eod", raised |-> FALSE,
                     returned |-> ~polling,
                     hist |-> IF polling THEN HistoryAtEod
                              ELSE HistoryAfterEod(HistoryAtEod, FALSE)]
          /\ UNCHANGED <<eod_done_date, settings, today>>

\* A pass of the poll loop of Strategy._run_alpaca_eod: flat, the run is
\* finished; past the deadline, it is given up; else the loop sleeps.
EodPoll ==
    /\ scheduler.pc = "eod_poll"
    /\ \E p \in {alpaca_eod_polled(World, today)} :
      LET w1 == p.w
          flat == alpaca_flat(w1)
          timed_out == scheduler.waited >= MaxEodWait
          returned == [w1 EXCEPT !.scheduler =
                         after_eod(scheduler, eod_result, FALSE, today)]
      IN  /\ \E after \in {IF flat THEN alpaca_eod_finished(returned, settings)
                            ELSE IF timed_out
                                 THEN alpaca_eod_timed_out(returned, settings)
                                 ELSE [w1 EXCEPT !.scheduler.pc = "eod_sleep"]} :
                 Commit(after)
          /\ eod_done_date' = IF flat THEN today ELSE eod_done_date
          /\ obs' = [op |-> "eod_poll", returned |-> flat \/ timed_out, flat |-> flat,
                     reported |-> p.reported, processed |-> p.processed,
                     hist |-> IF flat \/ timed_out
                              THEN HistoryAfterEod(obs.hist, FALSE)
                              ELSE obs.hist]
          /\ UNCHANGED <<settings, today>>

\* Variant of eod_slept in which the sleep takes no time.
eod_slept_no_time(s) == [s EXCEPT !.pc = "eod_poll"]

\* The poll loop after time.sleep(EOD_POLL_INTERVAL_SECONDS) (line 499): one
\* more poll interval has passed, the loop is at its next poll.
eod_slept(s) == [s EXCEPT !.pc = "eod_poll", !.waited = @ + 1]

\* time.sleep(EOD_POLL_INTERVAL_SECONDS) of the poll loop returns (line 499).
EodSleepEnds ==
    /\ scheduler.pc = "eod_sleep"
    /\ Commit([World EXCEPT !.scheduler = eod_slept(scheduler)])
    /\ obs' = [op |-> "eod_sleep", hist |-> obs.hist]
    /\ UNCHANGED <<eod_done_date, settings, today>>

\* The backend fills what is left of an order that closes a position, at
\* 50.00.
VenueClose ==
    \E order_id \in DOMAIN live.venue :
      LET held == live.venue[order_id]
          id == Uuid(held.symbol, next_id[held.symbol])
          act == [order_id |-> order_id, symbol |-> held.symbol,
                  quantity |-> held.quantity - VenueFilled(order_id),
                  price |-> 5000, side |-> "SELL", date |-> today]
      IN  /\ held.open /\ held.side = "SELL" /\ held.type = "MARKET"
          /\ Commit([World EXCEPT
                       !.live.activities = Put(@, id, act),
                       !.live.venue[order_id].open = FALSE,
                       !.next_id[held.symbol] = @ + 1])
          /\ obs' = [op |-> "venue_close", hist |-> obs.hist]
          /\ UNCHANGED <<eod_done_date, settings, today>>

\* An iteration of start() that has nothing to call.
SchedIdle ==
    /\ scheduler.pc = "loop" /\ ~scheduler.stop
    /\ ~within(scheduler, settings, today)
    /\ ~eod_due(scheduler, settings, today)
    /\ Commit([World EXCEPT !.scheduler.pc = "wait"])
    /\ obs' = [op |-> "iteration", invoked |-> "none", raised |-> FALSE,
               hist |-> obs.hist]
    /\ UNCHANGED <<eod_done_date, settings, today>>

\* The test of the while loop finds the stop event set: start() returns.
SchedExit ==
    /\ scheduler.pc = "loop" /\ scheduler.stop
    /\ Commit([World EXCEPT !.scheduler.pc = "stopped"])
    /\ obs' = [op |-> "exit", hist |-> obs.hist]
    /\ UNCHANGED <<eod_done_date, settings, today>>

\* The wait for the next minute ends (lines 86-89): at once when the stop
\* event is set, else by the timeout, and the clock has moved on; after the
\* last minute of the day it shows the first minute of the next day.
SchedWake ==
    LET k == CHOOSE j \in 1..Len(SchedMinutes) : SchedMinutes[j] = scheduler.minute
        last == k = Len(SchedMinutes)
    IN  /\ scheduler.pc = "wait"
        /\ scheduler.stop \/ ~last \/ today < MaxDay
        /\ Commit([World EXCEPT
                     !.scheduler.pc = "loop",
                     !.scheduler.minute =
                         IF scheduler.stop THEN @
                         ELSE IF last THEN SchedMinutes[1] ELSE SchedMinutes[k + 1]])
        /\ today' = IF ~scheduler.stop /\ last THEN today + 1 ELSE today
        /\ obs' = [op |-> "wake", hist |-> obs.hist]
        /\ UNCHANGED <<eod_done_date, settings>>

\* MinuteScheduler.stop, called while start() is running.
SchedStop ==
    /\ scheduler.pc \notin {"stopped", "crashed"}
    /\ ~scheduler.stop
    /\ Commit([World EXCEPT !.scheduler.stop = TRUE])
    /\ obs' = [op |-> "stop", hist |-> obs.hist]
    /\ UNCHANGED <<eod_done_date, settings, today>>

WeekendConfig == [NoGateConfig EXCEPT !.ALLOW_WEEKEND_TRADING = TRUE]

InitSched == InitWith(NoGateConfig) \/ InitWith(WeekendConfig) \/ InitWith(LiveConfig)

NextSched ==
    \/ SchedTick \/ SchedEod \/ SchedEodLive \/ SchedIdle \/ SchedExit
    \/ SchedWake \/ SchedStop
    \/ EodPoll \/ EodSleepEnds \/ VenueFill \/ VenueClose

SpecSched == InitSched /\ [][NextSched]_vars

\* ------------------------------------------------------ the live liquidation
\* The scheduler on the Alpaca backend, never stopped, with a backend that
\* may fill a closing order in two parts: the first fill takes half of the
\* order and leaves it open.
VenueClosePart ==
    \E order_id \in DOMAIN live.venue :
      LET held == live.venue[order_id]
          id == Uuid(held.symbol, next_id[held.symbol])
          act == [order_id |-> order_id, symbol |-> held.symbol,
                  quantity |-> held.quantity \div 2, price |-> 5000, side |-> "SELL",
                  date |-> today]
      IN  /\ held.open /\ held.side = "SELL" /\ held.type = "MARKET"
          /\ VenueFilled(order_id) = 0 /\ held.quantity \div 2 > 0
          /\ Commit([World EXCEPT
                       !.live.activities = Put(@, id, act),
                       !.next_id[held.symbol] = @ + 1])
          /\ obs' = [op |-> "venue_close", hist |-> obs.hist]
          /\ UNCHANGED <<eod_done_date, settings, today>>

NextEod ==
    \/ SchedTick \/ SchedEodLive \/ SchedIdle \/ SchedWake
    \/ EodPoll \/ EodSleepEnds \/ VenueFill \/ VenueClose \/ VenueClosePart

\* BROKER_BACKEND=alpaca, EOD_CLEAR_STATE=false, the refresh gate off.
LiveKeepConfig == [LiveConfig EXCEPT !.EOD_CLEAR_STATE = FALSE]

InitEod == InitWith(LiveKeepConfig)

SpecEod == InitEod /\ [][NextEod]_vars

\* The same with the thread of the EOD run kept running: a poll that is due
\* is made, a sleep that has begun ends.  What the backend fills, and when,
\* is left open.
SpecEodFair == SpecEod /\ WF_vars(EodPoll) /\ WF_vars(EodSleepEnds)

\* ----------------------------------------------------------- deferred targets
\* Fill processing beside open entry orders: entry orders of 10 shares of A
\* are placed as _place_buys places them, and BUY fills of 5 or 10 shares at
\* 50.00 arrive for an order of the store that has shares left to fill or,
\* with 10 shares, for an order the store does not know.
DeferQuantities == {5, 10}

BuyPlaced ==
    \E r \in {place_order(World, NewOrder("A", "BUY", "MARKET", NoneF, 10, "entry"))} :
      /\ Cardinality(OpenOrderIds(World, "A", "BUY")) < MaxOpen
      /\ Commit(upsert_order(r.w, r.id, r.placed))
      /\ obs' = [op |-> "placed", hist |-> obs.hist]
      /\ UNCHANGED <<eod_done_date, settings, today>>

DeferFill ==
    \E order_id \in DOMAIN orders \cup {Uuid("A", next_id["A"] + 1)},
       quantity \in DeferQuantities :
      \E fill \in {[id |-> Uuid("A", next_id["A"]), order_id |-> order_id,
                    symbol |-> "A", quantity |-> quantity, price |-> 5000,
                    side |-> "BUY"]} :
        /\ Cardinality(DOMAIN fills) < MaxFills
        /\ IF order_id \in DOMAIN orders
           THEN /\ orders[order_id].side = "BUY"
                /\ FilledQtyForOrder(World, order_id) + quantity
                       <= orders[order_id].quantity
           ELSE quantity = 10
        /\ Commit([process_fills(World, <<fill>>, FALSE, today)
                     EXCEPT !.next_id["A"] = @ + 2])
        /\ obs' = [op |-> "fill", hist |-> obs.hist, fill |-> fill]
        /\ UNCHANGED <<eod_done_date, settings, today>>

NextDefer == BuyPlaced \/ DeferFill \/ NextDay

SpecDefer == Init /\ [][NextDefer]_vars

\* ---------------------------------------------------------------- restarts
\* The process is stopped and started again on the paper broker
\* (build_services): a new PaperBroker, a JsonStateStore loaded from the state
\* file, a new Strategy, whose _eod_done_date is None.  The observation keeps
\* the date of the liquidation the process had done when it was stopped.
Restart ==
    /\ settings.BROKER_BACKEND = "paper"
    /\ obs.hist.restarted < MaxRestart
    /\ Commit([load(World) EXCEPT !.open_orders = Empty])
    /\ eod_done_date' = 0
    /\ obs' = [op |-> "restart",
               hist |-> [obs.hist EXCEPT
                            !.restarted = @ + 1,
                            !.eod_returned = IF eod_done_date = 0 THEN @ ELSE eod_done_date]]
    /\ UNCHANGED <<settings, today>>

NextRestart == GateTick \/ Eod \/ NextDay \/ Restart

SpecRestart == InitGate /\ [][NextRestart]_vars

\* ------------------------------------------------------- the live restart
\* Variant of reconcile_state_with_broker that leaves the watermark where the
\* constructor of the broker has put it.
reconcile_state_with_broker_unmarked(w, iso_today) ==
    LET acts == w.live.activities
        before_today == {i \in DOMAIN acts : acts[i].date < iso_today}
        g == AlpacaBroker_get_fills_since(w, before_today)
        ids == {g.fills[k].id : k \in DOMAIN g.fills}
        w1 == [g.w EXCEPT !.positions = Empty, !.orders = Empty, !.fills = Empty]
        w2 == IF ids = {} THEN w1
              ELSE persist([w1 EXCEPT !.processed_fill_ids = @ \cup ids])
        open == AlpacaBroker_get_open_orders(w2)
        w3 == IF DOMAIN open = {} THEN w2
              ELSE persist([w2 EXCEPT !.orders = Update(@, open)])
    IN  persist(w3)

\* Strategy._reconcile_state_with_broker on the Alpaca backend: the fills of
\* today are fetched and their ids remembered in both dedupe sets, the caches
\* of positions, orders and fills are emptied, the backend's open orders are
\* stored, the watermark moves to now, and the time of the sync is written.
reconcile_state_with_broker(w, iso_today) ==
    LET acts == w.live.activities
        before_today == {i \in DOMAIN acts : acts[i].date < iso_today}
        g == AlpacaBroker_get_fills_since(w, before_today)
        ids == {g.fills[k].id : k \in DOMAIN g.fills}
        w1 == [g.w EXCEPT !.positions = Empty, !.orders = Empty, !.fills = Empty]
        w2 == IF ids = {} THEN w1
              ELSE persist([w1 EXCEPT !.processed_fill_ids = @ \cup ids])
        open == AlpacaBroker_get_open_orders(w2)
        w3 == IF DOMAIN open = {} THEN w2
              ELSE persist([w2 EXCEPT !.orders = Update(@, open)])
    IN  persist([w3 EXCEPT !.live.last_fill_poll = DOMAIN acts])

\* Strategy.__init__ (lines 61-65): the reconciliation, then the persisted
\* fill ids are put into the broker's dedupe set.
strategy_init(w, iso_today) ==
    LET w1 == reconcile_state_with_broker(w, iso_today)
    IN  [w1 EXCEPT !.live.processed_fills = @ \cup w1.processed_fill_ids]

\* The process is stopped and started again on the Alpaca backend
\* (build_services): a JsonStateStore loaded from the state file, a new
\* AlpacaBroker (no fill handed out, the watermark five minutes back, which
\* the reconciliation overwrites before it is read), a new Strategy and a
\* new MinuteScheduler at the test of its loop; the old process is stopped
\* while it waits for the next minute, at one of StartMinutes.  The
\* observation remembers
\* the activities the backend had when the process started (prestart) and
\* the date of the start (started).
StartMinutes == {PREMARKET_START}

LiveStart ==
    LET fresh == [load(World) EXCEPT
                     !.live.processed_fills = {},
                     !.live.last_fill_poll = {},
                     !.live.last_backfill_attempt = [s \in Symbols |-> NoneF],
                     !.scheduler = [NoScheduler EXCEPT !.minute = scheduler.minute]]
    IN  /\ settings.BROKER_BACKEND = "alpaca"
        /\ obs.hist.restarted < MaxRestart
        /\ scheduler.pc = "wait" /\ scheduler.minute \in StartMinutes
        /\ Commit(strategy_init(fresh, today))
        /\ eod_done_date' = 0
        /\ obs' = [op |-> "start",
                   hist |-> [obs.hist EXCEPT !.restarted = @ + 1,
                                             !.prestart = DOMAIN live.activities,
                                             !.started = today]]
        /\ UNCHANGED <<settings, today>>

NextStart ==
    \/ SchedTick \/ SchedEodLive \/ SchedIdle \/ SchedWake
    \/ EodPoll \/ EodSleepEnds \/ VenueFill \/ VenueClose \/ LiveStart

InitStart == InitWith(LiveConfig)

SpecStart == InitStart /\ [][NextStart]_vars

\* ------------------------------------------------- the backend's cancels
\* The Alpaca backend rejects or cancels an order it holds open (a rejection
\* after acceptance, the expiry of a DAY order, a cancel from outside), while
\* it holds fewer than MaxCancel orders closed without a fill.
\* The orders the backend holds closed without a fill.
Unfilled ==
    {i \in DOMAIN live.venue : ~live.venue[i].open /\ VenueFilled(i) = 0}

VenueCancel ==
    \E order_id \in DOMAIN live.venue :
        /\ live.venue[order_id].open
        /\ Cardinality(Unfilled) < MaxCancel
        /\ Commit([World EXCEPT !.live.venue[order_id].open = FALSE])
        /\ obs' = [op |-> "venue_cancel", hist |-> obs.hist]
        /\ UNCHANGED <<eod_done_date, settings, today>>

NextVenue == LiveTick \/ VenueFill \/ VenueCancel

SpecVenue == InitLive /\ [][NextVenue]_vars

\* ------------------------------------------------------- entries on paper
\* The program on the paper broker with a screener that lists A, with or
\* without a price in its price column, and a quote provider that has a quote
\* of A at 50.00 in some minutes.  The scheduler ticks every minute, and a
\* minute in which the provider has the quote and the screener lists nothing
\* comes again and again.
EntryPrices == {Empty, [x \in {"A"} |-> 5000]}

EntryQuote == [x \in {"A"} |-> FlatQuote(5000, NoneF)]

EntryTick(lists, quotes) ==
    \E screener_symbols \in lists, finviz_prices \in EntryPrices, regular \in BOOLEAN :
      \E r \in {run_tick(World, screener_symbols, finviz_prices, quotes, regular,
                          settings, today)} :
        /\ DOMAIN finviz_prices \subseteq Range(screener_symbols)
        /\ Commit(r.w)
        /\ obs' = [op |-> "tick", hist |-> HistoryAfterTick(r.screener_ok),
                   screener_symbols |-> screener_symbols,
                   buy_candidates |-> r.buy_candidates,
                   screener_ok |-> r.screener_ok,
                   quoted |-> DOMAIN quotes]
        /\ UNCHANGED <<eod_done_date, settings, today>>

QuotedTick == EntryTick(LiveLists, EntryQuote)

UnquotedTick == EntryTick(LiveLists, Empty)

\* A tick with the quote of A in which the screener lists nothing.
QuotedIdleTick == EntryTick({<<>>}, EntryQuote)

NextEntry == QuotedTick \/ UnquotedTick \/ Eod \/ NextDay

SpecEntry == Init /\ [][NextEntry]_vars /\ WF_vars(QuotedIdleTick)

\* ------------------------------------------------------------------ claims
\* What the store and the broker hold, and the identifiers drawn so far.
book == <<positions, orders, fills, traded_dates, processed_fill_ids, metrics,
          open_orders, next_id>>

\* C1: handing fill processing a fill a second time (same fill id) leaves the
\* positions, the orders, the fills, the traded dates and the placed target
\* orders as they were after the first time.
C1_RedeliveryIsNoOp ==
    [][obs'.op = "redeliver" =>
         UNCHANGED <<positions, orders, fills, traded_dates, open_orders>>]_vars

\* C2: once run_eod_liquidation has completed on a date, a further call on that
\* date places no order, cancels no order, processes no fill and changes no
\* stored state.
C2_EodOncePerDate ==
    [][(obs'.op \in {"eod", "eod_skipped"} /\ eod_done_date = today)
          => UNCHANGED book]_vars

\* A second call on the date finds a position that a tick opened after the
\* first call, and leaves it.
C2_Witness ==
    /\ obs.op = "eod_skipped"
    /\ eod_done_date = today
    /\ \E sym \in DOMAIN positions : ~positions[sym].closed

\* C3: a symbol with an open position, a BUY order NEW/WORKING, or a last-entry
\* date or traded date equal to today is not among the tick's buy candidates,
\* and the tick places no BUY order for it.
C3_BlockedNeverBought ==
    [][obs'.op = "tick" =>
         \A sym \in Symbols :
            (\/ (sym \in DOMAIN positions /\ ~positions[sym].closed)
             \/ (\E i \in DOMAIN orders : /\ orders[i].symbol = sym
                                          /\ orders[i].side = "BUY"
                                          /\ orders[i].status \in {"NEW", "WORKING"})
             \/ (sym \in DOMAIN positions /\ positions[sym].last_entry_date = today)
             \/ (sym \in DOMAIN traded_dates /\ traded_dates[sym] = today))
            => /\ sym \notin Range(obs'.buy_candidates)
               /\ \A i \in (DOMAIN orders') \ (DOMAIN orders) :
                     ~(orders'[i].symbol = sym /\ orders'[i].side = "BUY")]_vars

\* A tick was given a list with a symbol it refused: the symbol holds an open
\* position or a pending BUY and the tick placed nothing for it.
C3_Witness ==
    /\ obs.op = "tick"
    /\ \E sym \in Range(obs.screener_symbols) :
          /\ sym \notin Range(obs.buy_candidates)
          /\ \/ (sym \in DOMAIN positions /\ ~positions[sym].closed)
             \/ \E i \in DOMAIN orders : /\ orders[i].symbol = sym
                                         /\ orders[i].side = "BUY"
                                         /\ orders[i].status \in {"NEW", "WORKING"}

\* The orders of the store with a given side and type.
OrdersOf(side, type) ==
    {i \in DOMAIN orders : orders[i].side = side /\ orders[i].type = type}

\* C4: the ladder of a positive quantity Q has tranches floor(Q*0.25) three
\* times and Q minus their sum; tranches of quantity <= 0 are skipped and the
\* SELL orders placed sum to Q, also when Q < 4.
C4_LadderSumsToQuantity ==
    \A b \in OrdersOf("BUY", "MARKET") :
       orders[b].status = "FILLED" =>
         LET Q == orders[b].quantity
             quarter == CHOOSE k \in 0..Q : 4 * k <= Q /\ Q < 4 * (k + 1)
             want == [t \in {"target_10", "target_20", "target_50", "target_100"} |->
                        IF t = "target_100" THEN Q - 3 * quarter ELSE quarter]
             sells == {i \in OrdersOf("SELL", "LIMIT") : orders[i].symbol = orders[b].symbol}
         IN  /\ Q > 0
             /\ \A t \in DOMAIN want :
                   LET placed == {i \in sells : orders[i].tags = {t}}
                   IN  IF want[t] <= 0 THEN placed = {}
                       ELSE /\ Cardinality(placed) = 1
                            /\ \A i \in placed : orders[i].quantity = want[t]
             /\ \A i \in sells : \E t \in DOMAIN want : orders[i].tags = {t}
             /\ SumQty(orders, sells) = Q

\* A quantity below 4: three tranches are skipped and one SELL order carries
\* all 3 shares.
C4_Witness ==
    \E b \in OrdersOf("BUY", "MARKET") :
       /\ orders[b].status = "FILLED"
       /\ orders[b].quantity = 3
       /\ Cardinality(OrdersOf("SELL", "LIMIT")) = 1
       /\ \A i \in OrdersOf("SELL", "LIMIT") : orders[i].quantity = 3

\* C5: the BUY order of a candidate with price p > 0 has quantity
\* max(1, ceil(B / p)) for the configured exposure B; with B = 1000 and p = 50
\* it is for 20 shares and the position the fill creates holds 20 shares (the
\* shares held and the shares a target sold in the same tick).
C5_BuyQuantity ==
    (obs.op = "tick" /\ obs.buy_candidates /= <<>>) =>
       /\ OrdersOf("BUY", "MARKET") \cup OrdersOf("BUY", "LIMIT") /= {}
       /\ \A b \in OrdersOf("BUY", "MARKET") \cup OrdersOf("BUY", "LIMIT") :
             LET q == orders[b].quantity
                 sym == orders[b].symbol
                 sold == SumQty(fills, {f \in DOMAIN fills : fills[f].side = "SELL"})
             IN  /\ obs.price > 0
                 /\ q >= 1
                 /\ q * obs.price >= BASE_POSITION_DOLLARS * 100
                 /\ q = 1 \/ (q - 1) * obs.price < BASE_POSITION_DOLLARS * 100
                 /\ (BASE_POSITION_DOLLARS = 1000 /\ obs.price = 5000) => q = 20
                 /\ orders[b].status = "FILLED" =>
                       /\ sym \in DOMAIN positions
                       /\ positions[sym].total_shares + sold = q

\* The 50.00 case: a BUY of 20 shares filled, the position holds 20.
C5_Witness ==
    /\ obs.op = "tick"
    /\ obs.price = 5000
    /\ \E b \in OrdersOf("BUY", "MARKET") :
          /\ orders[b].quantity = 20
          /\ orders[b].status = "FILLED"
          /\ positions[orders[b].symbol].total_shares = 20

\* A tick bought one new candidate and the BUY order is filled.
OneTickOneFilledBuy ==
    /\ obs.op = "tick"
    /\ obs.buy_candidates = <<"A">>
    /\ \E b \in OrdersOf("BUY", "MARKET") : orders[b].status = "FILLED"

\* The four target prices of an entry price: x1.10, x1.20, x1.50, x2.00.
TargetPrices(entry) ==
    {RoundCents(entry * 110, 100), RoundCents(entry * 120, 100),
     RoundCents(entry * 150, 100), RoundCents(entry * 200, 100)}

\* C6 as stated: after one tick with a single new candidate whose BUY is filled
\* there is one BUY order, FILLED, exactly 4 SELL LIMIT orders at entry x1.10,
\* x1.20, x1.50, x2.00, their quantities sum to the position's total_shares and
\* their ids are the position's open_target_orders.
C6_FourTargetsAfterOneTick ==
    OneTickOneFilledBuy =>
       LET buys == OrdersOf("BUY", "MARKET") \cup OrdersOf("BUY", "LIMIT")
           sells == OrdersOf("SELL", "LIMIT")
       IN  /\ Cardinality(buys) = 1
           /\ \A b \in buys : orders[b].status = "FILLED"
           /\ Cardinality(sells) = 4
           /\ {orders[i].price : i \in sells} = TargetPrices(obs.price)
           /\ SumQty(orders, sells) = positions["A"].total_shares
           /\ sells = Range(positions["A"].open_target_orders)

\* C6 amended: there is one BUY order, FILLED, of quantity Q; the SELL LIMIT
\* orders are the tranches of non-zero quantity (4 at the four target prices
\* when Q >= 4, one at entry x2.00 when Q < 4) and sum to Q; those still open
\* sum to the position's total_shares and their ids are the position's
\* open_target_orders.
C6_TargetsAfterOneTick ==
    OneTickOneFilledBuy =>
       LET buys == OrdersOf("BUY", "MARKET") \cup OrdersOf("BUY", "LIMIT")
           sells == OrdersOf("SELL", "LIMIT")
           open == {i \in sells : orders[i].status \in {"NEW", "WORKING"}}
       IN  /\ Cardinality(buys) = 1
           /\ \A b \in buys :
                 /\ orders[b].status = "FILLED"
                 /\ SumQty(orders, sells) = orders[b].quantity
                 /\ IF orders[b].quantity >= 4
                    THEN /\ Cardinality(sells) = 4
                         /\ {orders[i].price : i \in sells} = TargetPrices(obs.price)
                    ELSE /\ Cardinality(sells) = 1
                         /\ \A i \in sells :
                               orders[i].price = RoundCents(obs.price * 200, 100)
           /\ SumQty(orders, open) = positions["A"].total_shares
           /\ open = Range(positions["A"].open_target_orders)
           /\ Len(positions["A"].open_target_orders) = Cardinality(open)

\* The first target is filled in the tick that placed it: three of the four
\* SELL orders are still open.
C6_Witness ==
    /\ OneTickOneFilledBuy
    /\ \E i \in OrdersOf("SELL", "LIMIT") : orders[i].status = "FILLED"
    /\ Len(positions["A"].open_target_orders) = 3

\* The shares of the fills the store holds for an order.
FilledOf(fs, order_id) ==
    SumQty(fs, {i \in DOMAIN fs : fs[i].order_id = order_id})

\* The open SELL orders of a symbol among os.
OpenSellsOf(os, sym) ==
    {i \in DOMAIN os : os[i].symbol = sym /\ os[i].side = "SELL"
                        /\ os[i].status \in OpenStatus}

\* C7: a tick that processes a fill of a BUY order and leaves the order's
\* cumulative filled quantity below the order quantity places no target SELL
\* order for the symbol, none exists for it afterwards; a tick that processes
\* the fill bringing the cumulative quantity up to the order quantity leaves
\* open target SELL orders whose quantities sum to the position's share count
\* (12 of 20, then 8).
C7_TargetsDeferredUntilFilled ==
    [][obs'.op = "tick" =>
         \A i \in DOMAIN orders' :
            LET sym == orders'[i].symbol
                before == FilledOf(fills, i)
                after == FilledOf(fills', i)
            IN  (orders'[i].side = "BUY" /\ after > before) =>
                  /\ after < orders'[i].quantity =>
                        {j \in DOMAIN orders' : orders'[j].symbol = sym
                                                 /\ orders'[j].side = "SELL"} = {}
                  /\ (before < orders'[i].quantity /\ after >= orders'[i].quantity) =>
                        SumQty(orders', OpenSellsOf(orders', sym))
                            = positions'[sym].total_shares]_vars

\* C8: in simulate_minute an open LIMIT SELL order fills if and only if a quote
\* for its symbol is supplied whose mid (or, with use_high_for_limits, whose
\* high) is >= the limit price; the fill is for the full quantity at the limit
\* price, and the order leaves the open orders, so it cannot fill again.
C8_LimitSellFill ==
    [][obs'.op = "minute" =>
         /\ \A i \in DOMAIN open_orders :
               (open_orders[i].type = "LIMIT" /\ open_orders[i].side = "SELL") =>
                 LET order == open_orders[i]
                     q == obs'.quotes
                     hit == /\ order.symbol \in DOMAIN q
                            /\ \/ q[order.symbol].mid >= order.price
                               \/ /\ obs'.use_high_for_limits
                                  /\ q[order.symbol].high /= NoneF
                                  /\ q[order.symbol].high >= order.price
                     got == {k \in 1..Len(obs'.fills) : obs'.fills[k].order_id = i}
                 IN  /\ hit <=> got /= {}
                     /\ Cardinality(got) <= 1
                     /\ \A k \in got : /\ obs'.fills[k].quantity = order.quantity
                                       /\ obs'.fills[k].price = order.price
                                       /\ obs'.fills[k].symbol = order.symbol
                     /\ hit <=> i \notin DOMAIN open_orders'
         /\ \A k \in 1..Len(obs'.fills) : obs'.fills[k].order_id \in DOMAIN open_orders]_vars

\* A minute whose quote has its mid under the limit 10.00 and its high at it,
\* with use_high_for_limits set: the order filled at 10.00, neither the mid
\* (9.50) nor the ask.
C8_Witness ==
    /\ obs.op = "minute"
    /\ obs.use_high_for_limits
    /\ "A" \in DOMAIN obs.quotes
    /\ obs.quotes["A"].mid = 950
    /\ \E k \in 1..Len(obs.fills) :
          /\ obs.fills[k].price = 1000
          /\ obs.fills[k].quantity = 10
          /\ obs.fills[k].side = "SELL"
          /\ obs.fills[k].order_id \notin DOMAIN open_orders

C10_GateStaysUnlocked ==
    [][obs'.op = "tick" =>
         /\ obs.hist.unlocked = today => obs'.screener_ok
         /\ obs.hist.ticked /= today =>
               /\ ~obs'.screener_ok
               /\ metrics'.screener_initial_hash =
                     [s \in Symbols |-> Occurrences(obs'.screener_symbols, s)]]_vars

\* The fills the store holds for a symbol on one side.
FillsOf(sym, side) ==
    {i \in DOMAIN fills : fills[i].symbol = sym /\ fills[i].side = side}

\* C11: after any sequence of BUY fills on a symbol with no SELL fill among
\* them, the position's total_shares is the sum of the fills' quantities and
\* avg_price x total_shares is the sum of price x quantity over the fills.
C11_AverageIsVolumeWeighted ==
    \A sym \in DOMAIN positions :
        FillsOf(sym, "SELL") = {} =>
            /\ positions[sym].total_shares = SumQty(fills, FillsOf(sym, "BUY"))
            /\ RMulInt(positions[sym].avg_price, positions[sym].total_shares)
                  = RInt(SumCost(fills, FillsOf(sym, "BUY")))

\* Three BUY fills at two or more prices, no SELL fill, and an average that is
\* none of the fill prices.
C11_Witness ==
    /\ "A" \in DOMAIN positions
    /\ FillsOf("A", "SELL") = {}
    /\ Cardinality(FillsOf("A", "BUY")) = 3
    /\ \A i \in FillsOf("A", "BUY") : RInt(fills[i].price) /= positions["A"].avg_price

\* The fills of a symbol on one side that a step has added to the store.
NewFillsOf(sym, side) ==
    {i \in (DOMAIN fills') \ (DOMAIN fills) :
        fills'[i].symbol = sym /\ fills'[i].side = side}

\* C12: every SELL fill applied to a tracked position adds (fill price -
\* average price before) x quantity to realized_pnl, leaves avg_price as it
\* was and takes the fill's quantity off the shares; at 0 shares the position
\* is closed with no open_target_orders.  Stated for a step that applies
\* SELL fills only to a position: as the average does not move, the sums over
\* the step's fills must add up in the same way.
C12_SellFillAccounting ==
    [][\A sym \in (DOMAIN positions) \cap (DOMAIN positions') :
          (NewFillsOf(sym, "SELL") /= {} /\ NewFillsOf(sym, "BUY") = {}) =>
             LET sold == SumQty(fills', NewFillsOf(sym, "SELL"))
                 proceeds == RInt(SumCost(fills', NewFillsOf(sym, "SELL")))
                 before == positions[sym]
                 after == positions'[sym]
             IN  /\ after.realized_pnl
                       = RAdd(before.realized_pnl,
                              RSub(proceeds, RMulInt(before.avg_price, sold)))
                 /\ after.avg_price = before.avg_price
                 /\ after.total_shares = before.total_shares - sold
                 /\ after.total_shares = 0 =>
                       (after.closed /\ after.open_target_orders = <<>>)]_vars

\* C14: every stored Position has total_shares >= 0, and a Position with 0
\* shares is closed.
C14_FlatIsClosed ==
    \A sym \in DOMAIN positions :
        /\ positions[sym].total_shares >= 0
        /\ positions[sym].total_shares = 0 => positions[sym].closed

C14_Witness ==
    /\ "A" \in DOMAIN positions
    /\ positions["A"].total_shares = 0
    /\ positions["A"].closed
    /\ SumQty(fills, FillsOf("A", "SELL")) > SumQty(fills, FillsOf("A", "BUY"))

TerminalStatus == {"FILLED", "CANCELLED", "REJECTED"}

\* C13: an order's status only moves forward.  From one state of the store to
\* the next an order that is FILLED, CANCELLED or REJECTED keeps its status and
\* a WORKING order does not go back to NEW; and within an EOD run a SELL order
\* the cancel loop has marked CANCELLED is still CANCELLED when the
\* liquidation loop is over.
C13_StatusMonotonic ==
    [][/\ \A i \in (DOMAIN orders) \cap (DOMAIN orders') :
             /\ orders[i].status \in TerminalStatus => orders'[i].status = orders[i].status
             /\ orders[i].status = "WORKING" => orders'[i].status /= "NEW"
       /\ obs'.op = "eod" =>
             \A i \in DOMAIN orders :
                 (orders[i].side = "SELL" /\ orders[i].status \in OpenStatus) =>
                     paper_eod_liquidated(World, obs'.quotes, today).orders[i].status
                         = "CANCELLED"]_vars

\* C20: an EOD liquidation that clears the state leaves the metrics map and
\* the set of processed fill ids as they were when the liquidation loop
\* ended; the clear takes away orders, fills, positions and traded dates only.
C20_ClearKeepsHistory ==
    [][(obs'.op = "eod" /\ settings.EOD_CLEAR_STATE) =>
          LET before_clear == paper_eod_liquidated(World, obs'.quotes, today)
          IN  /\ metrics' = before_clear.metrics
              /\ processed_fill_ids' = before_clear.processed_fill_ids]_vars

\* The clock of the scheduler is inside [premarket start, regular close].
InWindow ==
    PREMARKET_START <= scheduler.minute /\ scheduler.minute <= REGULAR_CLOSE

\* The date is a weekday, or weekend trading is allowed.
PermittedDay == settings.ALLOW_WEEKEND_TRADING \/ weekday(today) < 5

\* A step in which start() leaves the head of its loop for an iteration.
StartsIteration ==
    scheduler.pc = "loop" /\ ~scheduler.stop /\ scheduler'.pc /= "loop"

\* A step in which the EOD callback comes back to start() or raises.
EodComesBack ==
    \/ obs'.op = "iteration" /\ obs'.invoked = "eod" /\ scheduler'.pc /= "eod_poll"
    \/ obs'.op = "eod_poll" /\ obs'.returned

\* C15: a tick that raises leaves the scheduler in its wait for the next
\* minute, and after a tick has raised every iteration inside the window
\* still invokes tick.
C15_TickFailureIsCaught ==
    [][/\ (obs'.op = "iteration" /\ obs'.invoked = "tick" /\ obs'.raised) =>
              scheduler'.pc = "wait"
       /\ (obs.hist.tick_raised /\ StartsIteration /\ InWindow /\ PermittedDay) =>
              (obs'.op = "iteration" /\ obs'.invoked = "tick")]_vars

C15_Witness ==
    /\ obs.op = "iteration" /\ obs.invoked = "tick" /\ ~obs.raised
    /\ obs.hist.tick_raised
    /\ scheduler.pc = "wait"

\* C16: the scheduler does not invoke the EOD callback on a date on which an
\* invocation of the callback has come back without an exception.
C16_EodOncePerDay ==
    [][(obs'.op = "iteration" /\ obs'.invoked = "eod") =>
          obs.hist.eod_returned /= today]_vars

\* C17: an EOD callback that raises or comes back with a falsy value leaves
\* the scheduler in its wait for the next minute with its done marker as it
\* was, and after such a failure every iteration of the same date outside the
\* window invokes the callback again.
C17_EodFailureIsRetried ==
    [][/\ (EodComesBack /\ (obs'.op = "eod_poll" \/ obs'.raised \/ ~Truthy(eod_result))) =>
              /\ scheduler'.pc = "wait"
              /\ scheduler'.eod_done_date = scheduler.eod_done_date
       /\ (obs.hist.eod_failed = today /\ StartsIteration
             /\ ~(InWindow /\ PermittedDay)) =>
              (obs'.op = "iteration" /\ obs'.invoked = "eod")]_vars

C17_Witness ==
    /\ obs.op = "iteration" /\ obs.invoked = "eod"
    /\ obs.hist.eod_retried = today
    /\ scheduler.eod_done_date = 0

\* C18: an iteration starts only when start() is at the head of its loop (no
\* tick or EOD run is going on), it invokes tick only inside the window on a
\* permitted day, and the EOD callback only outside the window at or after
\* the regular close on a permitted day.
C18_OneCallPerIteration ==
    [][obs'.op = "iteration" =>
          /\ scheduler.pc = "loop"
          /\ scheduler'.pc \in {"wait", "eod_poll"}
          /\ obs'.invoked = "tick" => (InWindow /\ PermittedDay)
          /\ obs'.invoked = "eod" =>
                /\ ~InWindow
                /\ scheduler.minute >= REGULAR_CLOSE
                /\ PermittedDay]_vars

C18_Witness ==
    /\ obs.op = "iteration" /\ obs.invoked = "eod"
    /\ weekday(today) >= 5
    /\ fills /= Empty

\* C19: once the stop event is set, the wait for the next minute ends with
\* the clock where it was, no iteration is started, and a sleep of the EOD
\* poll loop ends without the poll interval having been waited out.
C19_StopEndsEveryWait ==
    [][scheduler.stop =>
          /\ obs'.op /= "iteration"
          /\ (scheduler.pc = "wait" /\ scheduler' /= scheduler) =>
                (scheduler'.pc = "loop" /\ scheduler'.minute = scheduler.minute)
          /\ (scheduler.pc = "loop" /\ scheduler' /= scheduler) =>
                scheduler'.pc = "stopped"
          /\ (scheduler.pc = "eod_sleep" /\ scheduler' /= scheduler) =>
                scheduler'.waited = scheduler.waited]_vars

\* C23: whenever an operation of the program has returned, the state file
\* holds the traded-date map, the set of processed fill ids and the metrics
\* map that the State Store has in memory.
C23_WriteThrough ==
    /\ disk.traded_dates = traded_dates
    /\ disk.processed_fill_ids = processed_fill_ids
    /\ disk.metrics = metrics

\* C21: once the liquidation of a date is done, no later call of
\* run_eod_liquidation on that date runs the liquidation again, whether the
\* process has been restarted in between or not.
C21_EodOncePerDateAcrossRestart ==
    [][obs'.op = "eod" =>
          (eod_done_date /= today /\ obs.hist.eod_returned /= today)]_vars

\* C22: a restart on the paper broker leaves the State Store with the
\* positions, orders, fills, traded dates, processed fill ids and metrics it
\* had before.
C22_RestartRestoresState ==
    [][obs'.op = "restart" =>
          /\ positions' = positions
          /\ orders' = orders
          /\ fills' = fills
          /\ traded_dates' = traded_dates
          /\ processed_fill_ids' = processed_fill_ids
          /\ metrics' = metrics]_vars

\* The step ends an EOD attempt on the Alpaca backend that has not completed:
\* close_all_positions was refused, or the poll loop has timed out.
EodAttemptFails ==
    \/ /\ obs'.op = "iteration" /\ obs'.invoked = "eod"
       /\ settings.BROKER_BACKEND = "alpaca"
       /\ obs'.returned /\ eod_done_date /= today
    \/ obs'.op = "eod_poll" /\ obs'.returned /\ ~obs'.flat

\* C24: an EOD attempt on the Alpaca backend that does not complete leaves
\* the done marker unset and clears nothing (every position, order, fill,
\* traded date and processed fill id stays), a position no fill arrived for
\* in the step is left as it was, and a call of the EOD on a date whose
\* earlier attempt failed asks the backend to close all again: it enters the
\* poll loop unless the backend refuses.
C24_FailedEodIsRetried ==
    [][/\ EodAttemptFails =>
             /\ eod_done_date' /= today
             /\ DOMAIN positions \subseteq DOMAIN positions'
             /\ DOMAIN orders \subseteq DOMAIN orders'
             /\ DOMAIN fills \subseteq DOMAIN fills'
             /\ traded_dates' = traded_dates
             /\ processed_fill_ids \subseteq processed_fill_ids'
             /\ \A sym \in DOMAIN positions :
                    (\A i \in DOMAIN fills' \ DOMAIN fills : fills'[i].symbol /= sym)
                        => positions'[sym] = positions[sym]
       /\ (/\ obs'.op = "iteration" /\ obs'.invoked = "eod"
           /\ settings.BROKER_BACKEND = "alpaca"
           /\ obs.hist.eod_failed = today /\ eod_done_date /= today
           /\ ~obs'.returned)
             => scheduler'.pc = "eod_poll"]_vars

\* The poll loop has timed out on a date on which an earlier attempt had
\* failed, with shares still held by the store.
C24_Witness ==
    /\ obs.op = "eod_poll" /\ obs.returned /\ ~obs.flat
    /\ obs.hist.eod_retried = today
    /\ eod_done_date /= today
    /\ \E sym \in DOMAIN positions : positions[sym].total_shares > 0

\* C25: in every pass of the EOD poll loop on the Alpaca backend the fills
\* handed to fill processing are pairwise different, none of them is in the
\* processed-fill-id set, among the stored fills or among the fills the
\* broker has handed out before, every fill the backend reports that is not
\* in the processed-fill-id set is handed to fill processing, and, unless
\* the pass ends the liquidation and clears the store, each of them is a
\* stored fill and a processed fill id afterwards.
C25_PolledFillsProcessedOnce ==
    [][obs'.op = "eod_poll" =>
          LET done == obs'.processed
          IN  /\ \A j, k \in 1..Len(done) : done[j] = done[k] => j = k
              /\ \A k \in 1..Len(done) :
                     /\ done[k] \notin processed_fill_ids
                     /\ done[k] \notin DOMAIN fills
                     /\ done[k] \notin live.processed_fills
              /\ obs'.reported \ processed_fill_ids \subseteq Range(done)
              /\ ~(obs'.flat /\ settings.EOD_CLEAR_STATE) =>
                     /\ Range(done) \subseteq DOMAIN fills'
                     /\ Range(done) \subseteq processed_fill_ids']_vars

\* A pass of the poll loop of a second attempt on the date has processed a
\* fill of the closing order and has not found the book flat.
C25_Witness ==
    /\ obs.op = "eod_poll" /\ obs.processed /= <<>>
    /\ obs.hist.eod_retried = today
    /\ ~obs.flat
    /\ \A k \in 1..Len(obs.processed) :
           /\ obs.processed[k] \in DOMAIN fills
           /\ fills[obs.processed[k]].side = "SELL"

\* C26: after a run of the EOD liquidation on the paper broker, no SELL order
\* that was NEW or WORKING in the store before the run is NEW or WORKING in
\* the store, and none is among the open orders of the broker.
C26_EodCancelsOpenSells ==
    [][obs'.op = "eod" =>
          \A i \in OpenSells(World) :
              /\ i \in DOMAIN orders' => orders'[i].status \notin OpenStatus
              /\ i \notin DOMAIN open_orders']_vars

\* The orders tagged eod_liquidation that the step has put into the store
\* for a symbol.
EodOrdersPlaced(sym) ==
    {i \in DOMAIN orders' \ DOMAIN orders :
        orders'[i].symbol = sym /\ "eod_liquidation" \in orders'[i].tags}

\* C27: after a run of the EOD liquidation on the paper broker that does not
\* clear the store, every position that was open before the run is closed
\* with 0 shares and no open target orders, exactly one order tagged
\* eod_liquidation was placed for it, a MARKET SELL of the shares the
\* position had, and none was placed for any other symbol.  After a pass of
\* the poll loop on the Alpaca backend that finds the book flat and does not
\* clear the store, every position is closed with 0 shares and no open
\* target orders.
C27_EodClosesEveryPosition ==
    /\ [][(obs'.op = "eod" /\ ~settings.EOD_CLEAR_STATE) =>
          \A sym \in Symbols :
              IF sym \in get_open_positions(World)
              THEN /\ positions'[sym].closed
                   /\ positions'[sym].total_shares = 0
                   /\ positions'[sym].open_target_orders = <<>>
                   /\ Cardinality(EodOrdersPlaced(sym)) = 1
                   /\ \A i \in EodOrdersPlaced(sym) :
                          /\ orders'[i].side = "SELL"
                          /\ orders'[i].type = "MARKET"
                          /\ orders'[i].quantity = positions[sym].total_shares
              ELSE EodOrdersPlaced(sym) = {}]_vars
    /\ [][(obs'.op = "eod_poll" /\ obs'.flat /\ ~settings.EOD_CLEAR_STATE) =>
             \A sym \in DOMAIN positions :
                 /\ positions'[sym].closed
                 /\ positions'[sym].total_shares = 0
                 /\ positions'[sym].open_target_orders = <<>>]_vars

\* An EOD run that keeps the store has closed a position that held shares
\* and had open target orders.
C27_Witness ==
    /\ obs.op = "eod" /\ ~settings.EOD_CLEAR_STATE
    /\ \E sym \in DOMAIN positions :
          /\ positions[sym].closed /\ positions[sym].total_shares = 0
          /\ \E i \in DOMAIN orders :
                /\ orders[i].symbol = sym /\ "eod_liquidation" \in orders[i].tags
          /\ \E i \in DOMAIN orders :
                /\ orders[i].symbol = sym /\ orders[i].side = "SELL"
                /\ orders[i].status = "CANCELLED"

\* The shares of a symbol in the store (0: no position).
SharesOf(ps, sym) == IF sym \in DOMAIN ps THEN ps[sym].total_shares ELSE 0

NoTargetPlaced ==
    LET f == obs'.fill
    IN  /\ DOMAIN orders' = DOMAIN orders \cup {f.order_id}
        /\ open_orders' = open_orders
        /\ positions'[f.symbol].open_target_orders =
               IF f.symbol \in DOMAIN positions
               THEN positions[f.symbol].open_target_orders ELSE <<>>

C30_OpenTargetsAreLive ==
    obs.op \in {"tick", "eod"} =>
        \A sym \in DOMAIN positions :
            \A k \in 1..Len(positions[sym].open_target_orders) :
                LET i == positions[sym].open_target_orders[k]
                IN  /\ i \in DOMAIN orders
                    /\ orders[i].side = "SELL"
                    /\ orders[i].symbol = sym
                    /\ orders[i].status \in OpenStatus

\* A tick has filled a target order of a position that has other target
\* orders left in its list.
C30_Witness ==
    /\ obs.op = "tick"
    /\ \E sym \in DOMAIN positions :
          /\ positions[sym].open_target_orders /= <<>>
          /\ \E i \in DOMAIN orders :
                /\ orders[i].symbol = sym /\ orders[i].side = "SELL"
                /\ orders[i].status = "FILLED"
                /\ \E k \in DOMAIN fills : fills[k].order_id = i

\* C31: on the paper broker, for every symbol, the quantities of the SELL
\* orders of the store with status NEW or WORKING sum to no more than the
\* total_shares of the symbol's position (0 without a position).
C31_SellCoverageWithinShares ==
    \A sym \in Symbols :
        SumQty(orders, OpenOrderIds(World, sym, "SELL")) <= SharesOf(positions, sym)

\* The step is a tick on the Alpaca backend that has processed no fill and
\* placed no BUY order: what it has done to the orders, the target check of
\* its refresh has done.
TargetCheckAlone ==
    /\ obs'.op = "tick" /\ settings.BROKER_BACKEND = "alpaca"
    /\ DOMAIN fills' = DOMAIN fills
    /\ \A i \in DOMAIN orders' \ DOMAIN orders : orders'[i].side = "SELL"

\* The target check of the step finds the symbol in its cooldown.
Cooling(sym) ==
    /\ live.last_backfill_attempt[sym] /= NoneF
    /\ (live.clock - live.last_backfill_attempt[sym]) * REFRESH_INTERVAL_SECONDS
           < cooldown_seconds

CancelledSell(sym) ==
    \E i \in DOMAIN orders :
        /\ orders[i].symbol = sym /\ orders[i].side = "SELL"
        /\ orders[i].status /= "CANCELLED"
        /\ i \in DOMAIN orders' /\ orders'[i].status = "CANCELLED"

\* The step has put a SELL order of the symbol into the store.
PlacedSell(sym) ==
    \E i \in DOMAIN orders' \ DOMAIN orders :
        orders'[i].symbol = sym /\ orders'[i].side = "SELL"

\* C33: in a tick on the Alpaca backend that finds a symbol in its cooldown,
\* no SELL order of the symbol is cancelled, the time of the last attempt
\* stays, and the target check places no SELL order; a tick whose target
\* check cancels or places SELL orders of the symbol records its time as
\* the last attempt, and the attempt before it, if any, is at least
\* cooldown_seconds older.
C33_BackfillRateLimited ==
    [][(obs'.op = "tick" /\ settings.BROKER_BACKEND = "alpaca") =>
          \A sym \in Symbols :
              LET last == live.last_backfill_attempt[sym]
                  acted == CancelledSell(sym) \/ (TargetCheckAlone /\ PlacedSell(sym))
              IN  /\ Cooling(sym) =>
                         /\ ~acted
                         /\ live'.last_backfill_attempt[sym] = last
                  /\ acted =>
                         /\ live'.last_backfill_attempt[sym] = live.clock
                         /\ last /= NoneF =>
                                (live.clock - last) * REFRESH_INTERVAL_SECONDS
                                    >= cooldown_seconds]_vars

\* A tick inside the cooldown of A has left open SELL orders standing that
\* do not sum to the shares the backend holds.
C33_Witness ==
    /\ obs.op = "tick" /\ settings.BROKER_BACKEND = "alpaca"
    /\ live.last_backfill_attempt["A"] /= NoneF
    /\ live.last_backfill_attempt["A"] < live.clock - 1
    /\ (live.clock - 1 - live.last_backfill_attempt["A"]) * REFRESH_INTERVAL_SECONDS
           < cooldown_seconds
    /\ VenueShares(World, "A") > 0
    /\ SumQty(orders, OpenOrderIds(World, "A", "SELL")) /= VenueShares(World, "A")

\* The fill activities of the account from before the last start of the
\* process that occurred on the date of the start.
PrestartToday ==
    {i \in obs.hist.prestart : live.activities[i].date = obs.hist.started}

\* C34: after the process has been started on the Alpaca backend, no tick
\* and no poll of the EOD run is handed a fill that occurred before the
\* start, and none is in the store's fills; the watermark is not before any
\* of them; the ids of those that occurred on the date of the start are in
\* the broker's dedupe set, and in the store's when the start returns.
C34_NoReplayAfterStart ==
    /\ [](obs.hist.restarted > 0 =>
             /\ DOMAIN fills \cap obs.hist.prestart = {}
             /\ obs.hist.prestart \subseteq live.last_fill_poll
             /\ PrestartToday \subseteq live.processed_fills
             /\ obs.op = "start" => PrestartToday \subseteq processed_fill_ids)
    /\ [][(obs.hist.restarted > 0 /\ obs'.op \in {"iteration", "eod_poll"}) =>
             (live'.processed_fills \ live.processed_fills)
                 \cap obs.hist.prestart = {}]_vars

\* After a start that found a fill of the same date, a fill that occurred
\* after the start has been processed.
C34_Witness ==
    /\ obs.hist.restarted > 0
    /\ PrestartToday /= {}
    /\ DOMAIN fills \ obs.hist.prestart /= {}

\* The statement of C34 as the specification words it: when the start
\* returns, the id of every fill that occurred before it is in both dedupe
\* sets.
C34_EveryPriorFillDeduped ==
    obs.op = "start" =>
        /\ obs.hist.prestart \subseteq live.processed_fills
        /\ obs.hist.prestart \subseteq processed_fill_ids

\* C35: when a tick on the Alpaca backend has returned, the store holds for
\* every symbol the shares the backend holds of it.
C35_CacheEqualsBackend ==
    (obs.op = "tick" /\ settings.BROKER_BACKEND = "alpaca") =>
        \A sym \in Symbols : SharesOf(positions, sym) = VenueShares(World, sym)

\* C36: when a tick on the Alpaca backend has returned, no order the backend
\* holds closed without a fill is NEW or WORKING in the store.
C36_ClosedAtBackendNotOpen ==
    (obs.op = "tick" /\ settings.BROKER_BACKEND = "alpaca") =>
        \A i \in DOMAIN orders \cap DOMAIN live.venue :
            (~live.venue[i].open /\ VenueFilled(i) = 0) =>
                orders[i].status \notin OpenStatus

\* The BUY orders of a symbol the step has put into the store.
PlacedBuys(sym) ==
    {i \in DOMAIN orders' \ DOMAIN orders :
        orders'[i].symbol = sym /\ orders'[i].side = "BUY"}

\* C37: a tick on the paper broker places at most one BUY order per symbol,
\* and none for a symbol that has an open BUY order or was traded on the
\* date of the tick.
C37_OneEntryPerSymbol ==
    [][(obs'.op = "tick" /\ settings.BROKER_BACKEND = "paper") =>
          \A sym \in Symbols :
              /\ Cardinality(PlacedBuys(sym)) <= 1
              /\ PlacedBuys(sym) /= {} =>
                     /\ OpenOrderIds(World, sym, "BUY") = {}
                     /\ ~(sym \in DOMAIN traded_dates /\ traded_dates[sym] = today)]_vars

\* The shares of a symbol the fills of the store add up to: bought minus
\* sold.
FilledShares(sym) ==
    LET of(side) == {i \in DOMAIN fills : fills[i].symbol = sym /\ fills[i].side = side}
    IN  SumQty(fills, of("BUY")) - SumQty(fills, of("SELL"))

\* C38: on the paper broker the total_shares of every symbol's position are
\* the quantities of the stored BUY fills of the symbol minus those of its
\* stored SELL fills, the store's fills being those processed since the last
\* clear.
C38_ShareConservation ==
    settings.BROKER_BACKEND = "paper" =>
        \A sym \in Symbols : SharesOf(positions, sym) = FilledShares(sym)

\* C39: on the paper broker, with ticks that have a quote of the symbol coming
\* again and again, a symbol that has an open BUY order in the store comes to
\* have none.
C39_EntryEventuallyFilled ==
    \A sym \in Symbols :
        (settings.BROKER_BACKEND = "paper" /\ OpenOrderIds(World, sym, "BUY") /= {})
            ~> (OpenOrderIds(World, sym, "BUY") = {})

\* The scheduler is inside the poll loop of the EOD run.
InPollLoop == scheduler.pc \in {"eod_poll", "eod_sleep"}

\* C40: an EOD run on the Alpaca backend that has entered its poll loop
\* leaves it, and never sleeps more than MaxEodWait poll intervals in it.
C40_EodPollTerminates ==
    /\ [](scheduler.waited <= MaxEodWait)
    /\ InPollLoop ~> ~InPollLoop

\* An EOD run has slept through all its poll intervals and returned on the
\* deadline while the backend still holds shares.
C40_Witness ==
    /\ obs.op = "eod_poll" /\ obs.returned /\ ~obs.flat
    /\ ~InPollLoop
    /\ AlpacaBroker_list_positions(World) /= {}

====
